---- MODULE Spec2Model ----
(***************************************************************************)
(* Dialogue Studio: the line-oriented text-to-dialogue parser, the         *)
(* validator, the batch document assembler and the JSON export of          *)
(* src/src/services/dialogueService.js (class DialogueService, the second  *)
(* definition in the file, lines 383-987).                              *)
(*                                                                         *)
(* A JavaScript string is a sequence of atoms.  An atom is a run of        *)
(* characters that no operation of the code ever splits: a marker word     *)
(* ("CHOICE", "NARRATION", ...), a word of payload, or one of the single   *)
(* characters the code looks for (":", " ", the double quote).  The width  *)
(* of an atom is its number of characters, so that character offsets       *)
(* (indexOf, substring(7), substring(10), padStart(2, "0")) keep their     *)
(* meaning.  A text is the sequence of its physical lines, i.e. the result *)
(* of text.split("\n").                                                    *)
(***************************************************************************)
EXTENDS Integers, Sequences, FiniteSets, TLC

VARIABLES
    text,            \* the raw input, split at "\n"
    lines,           \* const lines = text.split("\n").filter((line) => line.trim())
    pc,              \* position of the running call
    idx,             \* forEach position in the filtered lines (1-based)
    dialogues,       \* convertTextToDialogues: const dialogues = []
    currentSpeaker,  \* let currentSpeaker = ""
    currentText,     \* let currentText = ""
    inChoiceBlock,   \* let inChoiceBlock = false
    currentChoice,   \* let currentChoice = null
    origin,          \* history: for each emitted node, the line that opened it
    speakerLine,     \* history: the line that set currentSpeaker
    choiceLine,      \* history: the line that opened currentChoice
    errors,          \* validateDialogueText: const errors = []
    hasValidDialogue,
    vInChoiceBlock,
    choiceOptions,
    choiceTargets,
    args,            \* the arguments (scene, sequence, title) of createBatchDialogueData
    document,        \* the value createBatchDialogueData returned
    exported,        \* the value createExportStructure returned
    structure,       \* the value generateZipFileStructure returned
    batch,           \* the documents of the batch (batchDialogues)
    thisTotalDialogues, \* FigmaFileGenerator: this.totalDialogues
    figma,           \* the layout call made last, and the value it returned
    gptCall,         \* the arguments of convertTextToJSON and the API's answer
    gptResult,       \* the value convertTextToJSON returned
    inputText,       \* DialogueConverter: useState("")
    sceneNumber,     \* useState("01")
    sequenceNumber,  \* useState("01")
    dialogueTitle,   \* useState("")
    isProcessing,    \* useState(false)
    uiBatchDialogues, \* const [batchDialogues, setBatchDialogues] = useState([])
    validationErrors, \* useState([])
    isValid,         \* useState(false)
    editingItem,     \* useState(null)
    editedItems,     \* useState(new Set())
    pending,         \* the handler that awaits convertTextToJSON, if any
    nextId           \* the value of Date.now() + Math.random() at the next call

vars == <<text, lines, pc, idx, dialogues, currentSpeaker, currentText,
          inChoiceBlock, currentChoice, origin, speakerLine, choiceLine, errors,
          hasValidDialogue, vInChoiceBlock, choiceOptions, choiceTargets,
          args, document, exported, structure, batch, thisTotalDialogues,
          figma, gptCall, gptResult, inputText, sceneNumber, sequenceNumber,
          dialogueTitle, isProcessing, uiBatchDialogues, validationErrors,
          isValid, editingItem, editedItems, pending, nextId>>

parserVars == <<dialogues, currentSpeaker, currentText, inChoiceBlock,
                currentChoice, origin, speakerLine, choiceLine>>
validatorVars == <<errors, hasValidDialogue, vInChoiceBlock, choiceOptions,
                   choiceTargets>>
batchVars == <<args, document, exported, structure>>
layoutVars == <<batch, thisTotalDialogues, figma>>
gptVars == <<gptCall, gptResult>>
formVars == <<inputText, sceneNumber, sequenceNumber, dialogueTitle,
              validationErrors, isValid>>
converterVars == <<formVars, isProcessing, uiBatchDialogues, editingItem,
                   editedItems, pending, nextId>>

-----------------------------------------------------------------------------
(* Bounds of the model.                                                    *)

\* longest text, in physical lines, of the general input family
MaxLines == 3
\* most OPTION:/TARGET: lines inside the block of the choice input family
MaxBody == 4
\* longest text, in physical lines, handed to createBatchDialogueData
MaxBatchLines == 3

-----------------------------------------------------------------------------
(* JavaScript strings.                                                     *)

Quote == "\""

Min(S) == CHOOSE x \in S : \A y \in S : x <= y
Max(S) == CHOOSE x \in S : \A y \in S : x >= y

\* s.length
RECURSIVE StrLen(_)
StrLen(s) == IF s = <<>> THEN 0 ELSE Len(Head(s)) + StrLen(Tail(s))

\* character offset of the atom at position k
Offset(s, k) == StrLen(SubSeq(s, 1, k - 1))

IsSpace(a) == a = " "

RECURSIVE TrimStart(_)
TrimStart(s) ==
    IF s # <<>> /\ IsSpace(Head(s)) THEN TrimStart(Tail(s)) ELSE s

RECURSIVE TrimEnd(_)
TrimEnd(s) ==
    IF s # <<>> /\ IsSpace(s[Len(s)]) THEN TrimEnd(SubSeq(s, 1, Len(s) - 1)) ELSE s

\* s.trim()
Trim(s) == TrimEnd(TrimStart(s))

\* s.startsWith(p)
StartsWith(s, p) == Len(s) >= Len(p) /\ SubSeq(s, 1, Len(p)) = p

\* s.includes(a), a one atom
Includes(s, a) == \E k \in 1..Len(s) : s[k] = a

\* s.indexOf(a), a one atom: the character offset of its first occurrence
IndexOf(s, a) ==
    IF Includes(s, a)
    THEN Offset(s, Min({k \in 1..Len(s) : s[k] = a}))
    ELSE -1

\* s.substring(from, to), offsets in characters
Substring(s, from, to) ==
    LET keep == {k \in 1..Len(s) : from <= Offset(s, k) /\ Offset(s, k) < to}
    IN  IF keep = {} THEN <<>> ELSE SubSeq(s, Min(keep), Max(keep))

\* s.substring(from)
SubstringFrom(s, from) == Substring(s, from, StrLen(s))

\* s.padStart(n, pad), pad one character
RECURSIVE PadStart(_, _, _)
PadStart(s, n, pad) ==
    IF StrLen(s) >= n THEN s ELSE PadStart(<<pad>> \o s, n, pad)

\* `"${s}"`
Quoted(s) == <<Quote>> \o s \o <<Quote>>

\* text.split("\n").filter((line) => line.trim())
FilterLines(t) == SelectSeq(t, LAMBDA line : Trim(line) # <<>>)

-----------------------------------------------------------------------------
(* The markers the code matches.                                           *)

ChoicePrefix == <<"CHOICE", ":">>
EndChoicePrefix == <<"END_CHOICE">>
OptionPrefix == <<"OPTION", ":">>
TargetPrefix == <<"TARGET", ":">>
NarrationPrefix == <<"NARRATION", ":">>
DialoguePrefix == <<"Dialogue">>

-----------------------------------------------------------------------------
(* Dialogue nodes.                                                         *)

CharacterNode(speaker, t) ==
    [type |-> "character", speaker |-> speaker, text |-> t]
NarrationNode(t) == [type |-> "narration", text |-> t]
ChoiceNode(question, options, targets) ==
    [type |-> "choice", question |-> question, options |-> options,
     targetSequences |-> targets]
\* currentChoice = null
NullChoice == [type |-> "null"]

-----------------------------------------------------------------------------
(* convertTextToDialogues (dialogueService.js 532-646).  The closure       *)
(* variables the forEach callback mutates are the fields of a parser       *)
(* state st; n is the position of the line in the filtered lines.          *)

ParserInit ==
    [dialogues |-> <<>>, currentSpeaker |-> <<>>, currentText |-> <<>>,
     inChoiceBlock |-> FALSE, currentChoice |-> NullChoice,
     origin |-> <<>>, speakerLine |-> 0, choiceLine |-> 0]

\* if (currentSpeaker && currentText)
HasPending(st) == st.currentSpeaker # <<>> /\ st.currentText # <<>>

\* dialogues.push({type: "character", speaker, text: `"${currentText.trim()}"`})
PushPending(st) ==
    [st EXCEPT !.dialogues =
                   Append(@, CharacterNode(st.currentSpeaker,
                                           Quoted(Trim(st.currentText)))),
               !.origin = Append(@, st.speakerLine)]

\* "Save previous dialogue if exists", as the CHOICE: and NARRATION: branches
\* do it: the speaker and the text are reset inside the if
SavePreviousAndReset(st) ==
    IF HasPending(st)
    THEN [PushPending(st) EXCEPT !.currentSpeaker = <<>>, !.currentText = <<>>]
    ELSE st

\* "Save previous dialogue if exists", as the character branch and the end of
\* the function do it: nothing is reset
SavePrevious(st) == IF HasPending(st) THEN PushPending(st) ELSE st

\* lines 544-565
HandleChoiceStart(st, trimmedLine, n) ==
    LET saved == SavePreviousAndReset(st)
        question == Trim(SubstringFrom(trimmedLine, 7))
    IN  [saved EXCEPT !.inChoiceBlock = TRUE,
                      !.currentChoice = ChoiceNode(question, <<>>, <<>>),
                      !.choiceLine = n]

\* lines 568-575
HandleChoiceEnd(st) ==
    LET emit == st.currentChoice # NullChoice
                    /\ Len(st.currentChoice.options) > 0
    IN  [st EXCEPT !.inChoiceBlock = FALSE,
                   !.dialogues = IF emit THEN Append(@, st.currentChoice) ELSE @,
                   !.origin = IF emit THEN Append(@, st.choiceLine) ELSE @,
                   !.currentChoice = NullChoice]

\* lines 578-584
HandleOption(st, trimmedLine) ==
    LET option == Trim(SubstringFrom(trimmedLine, 7))
    IN  IF st.currentChoice # NullChoice
        THEN [st EXCEPT !.currentChoice.options = Append(@, Quoted(option))]
        ELSE st

\* a target pushed like an option, in quotes
HandleTarget_Quoted(st, trimmedLine) ==
    LET target == Trim(SubstringFrom(trimmedLine, 7))
    IN  IF st.currentChoice # NullChoice
        THEN [st EXCEPT !.currentChoice.targetSequences =
                            Append(@, Quoted(target))]
        ELSE st

\* lines 587-593
HandleTarget(st, trimmedLine) ==
    LET target == Trim(SubstringFrom(trimmedLine, 7))
    IN  IF st.currentChoice # NullChoice
        THEN [st EXCEPT !.currentChoice.targetSequences = Append(@, target)]
        ELSE st

\* narration text quoted like character text
HandleNarration_Quoted(st, trimmedLine, n) ==
    LET saved == SavePreviousAndReset(st)
        narrationText == Trim(SubstringFrom(trimmedLine, 10))
    IN  [saved EXCEPT
            !.dialogues = Append(@, NarrationNode(Quoted(narrationText))),
            !.origin = Append(@, n)]

\* lines 596-614
HandleNarration(st, trimmedLine, n) ==
    LET saved == SavePreviousAndReset(st)
        narrationText == Trim(SubstringFrom(trimmedLine, 10))
    IN  [saved EXCEPT !.dialogues = Append(@, NarrationNode(narrationText)),
                      !.origin = Append(@, n)]

\* s.lastIndexOf(a)
LastIndexOf(s, a) ==
    IF Includes(s, a)
    THEN Offset(s, Max({k \in 1..Len(s) : s[k] = a}))
    ELSE -1

\* the line split at its last colon instead of its first
HandleCharacter_LastColon(st, trimmedLine, n) ==
    LET saved == SavePrevious(st)
        colonIndex == LastIndexOf(trimmedLine, ":")
    IN  [saved EXCEPT
            !.currentSpeaker = Trim(Substring(trimmedLine, 0, colonIndex)),
            !.currentText = Trim(SubstringFrom(trimmedLine, colonIndex + 1)),
            !.speakerLine = n]

\* lines 617-629
HandleCharacter(st, trimmedLine, n) ==
    LET saved == SavePrevious(st)
        colonIndex == IndexOf(trimmedLine, ":")
    IN  [saved EXCEPT
            !.currentSpeaker = Trim(Substring(trimmedLine, 0, colonIndex)),
            !.currentText = Trim(SubstringFrom(trimmedLine, colonIndex + 1)),
            !.speakerLine = n]

\* lines 630-633: currentText += (currentText ? " " : "") + trimmedLine
HandleContinuation(st, trimmedLine) ==
    [st EXCEPT !.currentText =
        @ \o (IF @ # <<>> THEN <<" ">> ELSE <<>>) \o trimmedLine]

\* the forEach callback, lines 540-634
ParseLine(st, line, n) ==
    LET trimmedLine == Trim(line)
    IN  IF StartsWith(trimmedLine, ChoicePrefix)
            THEN HandleChoiceStart(st, trimmedLine, n)
        ELSE IF st.inChoiceBlock /\ StartsWith(trimmedLine, EndChoicePrefix)
            THEN HandleChoiceEnd(st)
        ELSE IF st.inChoiceBlock /\ StartsWith(trimmedLine, OptionPrefix)
            THEN HandleOption(st, trimmedLine)
        ELSE IF st.inChoiceBlock /\ StartsWith(trimmedLine, TargetPrefix)
            THEN HandleTarget(st, trimmedLine)
        ELSE IF StartsWith(trimmedLine, NarrationPrefix)
            THEN HandleNarration(st, trimmedLine, n)
        ELSE IF Includes(trimmedLine, ":")
                    /\ ~StartsWith(trimmedLine, DialoguePrefix)
            THEN HandleCharacter(st, trimmedLine, n)
        ELSE IF trimmedLine # <<>> /\ st.currentSpeaker # <<>>
            THEN HandleContinuation(st, trimmedLine)
        ELSE st

\* an end of the function that would also close a block left open
ParseEnd_FlushChoice(st) ==
    SavePrevious(IF st.inChoiceBlock THEN HandleChoiceEnd(st) ELSE st)

\* lines 636-645: "Add the last dialogue", return dialogues
ParseEnd(st) == SavePrevious(st)

\* the parser state after the first k filtered lines
RECURSIVE ParseLines(_, _)
ParseLines(ls, k) ==
    IF k = 0 THEN ParserInit
    ELSE ParseLine(ParseLines(ls, k - 1), ls[k], k)

\* convertTextToDialogues(text) as one call: the final parser state
ConvertTextToDialogues(t) ==
    LET ls == FilterLines(t) IN ParseEnd(ParseLines(ls, Len(ls)))

\* the parser state held in the variables
ParserState ==
    [dialogues |-> dialogues, currentSpeaker |-> currentSpeaker,
     currentText |-> currentText, inChoiceBlock |-> inChoiceBlock,
     currentChoice |-> currentChoice, origin |-> origin,
     speakerLine |-> speakerLine, choiceLine |-> choiceLine]

SetParserState(st) ==
    /\ dialogues' = st.dialogues
    /\ currentSpeaker' = st.currentSpeaker
    /\ currentText' = st.currentText
    /\ inChoiceBlock' = st.inChoiceBlock
    /\ currentChoice' = st.currentChoice
    /\ origin' = st.origin
    /\ speakerLine' = st.speakerLine
    /\ choiceLine' = st.choiceLine

-----------------------------------------------------------------------------
(* validateDialogueText (dialogueService.js 384-477).  index is the        *)
(* forEach index (0-based) of the line in the filtered lines.              *)

\* `Line ${index + 1}: ${msg}`
LineError(index, msg) == [line |-> index + 1, msg |-> msg]
\* a diagnostic without a line number
TextError(msg) == [msg |-> msg]

NoTextMsg == "No dialogue text provided"
NoOptionMsg == "Choice block must have at least one option"
NoTargetMsg == "Choice block must have at least one target sequence"
EmptyNarrationMsg == "Empty narration text"
EmptySpeakerMsg == "Empty speaker name"
EmptyTextMsg == "Empty dialogue text"
InvalidFormatMsg == "Invalid format. Use NARRATION:, CHARACTER:, or CHOICE: format"
NoValidDialogueMsg ==
    "No valid dialogue found. Use NARRATION:, CHARACTER:, or CHOICE: format."

ValidatorInit ==
    [errors |-> <<>>, hasValidDialogue |-> FALSE, inChoiceBlock |-> FALSE,
     choiceOptions |-> 0, choiceTargets |-> 0]

\* lines 402-408
CheckChoiceStart(v) ==
    [v EXCEPT !.inChoiceBlock = TRUE, !.hasValidDialogue = TRUE,
              !.choiceOptions = 0, !.choiceTargets = 0]

\* the target check as an else-branch of the option check
CheckChoiceEnd_ElseIf(v, index) ==
    LET found == IF v.choiceOptions = 0
                     THEN <<LineError(index, NoOptionMsg)>>
                 ELSE IF v.choiceTargets = 0
                     THEN <<LineError(index, NoTargetMsg)>>
                 ELSE <<>>
    IN  [v EXCEPT !.inChoiceBlock = FALSE, !.errors = @ \o found]

\* lines 411-426
CheckChoiceEnd(v, index) ==
    LET noOption == IF v.choiceOptions = 0
                    THEN <<LineError(index, NoOptionMsg)>> ELSE <<>>
        noTarget == IF v.choiceTargets = 0
                    THEN <<LineError(index, NoTargetMsg)>> ELSE <<>>
    IN  [v EXCEPT !.inChoiceBlock = FALSE,
                  !.errors = @ \o noOption \o noTarget]

\* lines 429-436
CheckChoiceContent(v, trimmedLine) ==
    IF StartsWith(trimmedLine, OptionPrefix)
        THEN [v EXCEPT !.choiceOptions = @ + 1]
    ELSE IF StartsWith(trimmedLine, TargetPrefix)
        THEN [v EXCEPT !.choiceTargets = @ + 1]
    ELSE v

\* lines 439-446
CheckNarration(v, trimmedLine, index) ==
    LET narrationText == Trim(SubstringFrom(trimmedLine, 10))
    IN  [v EXCEPT !.hasValidDialogue = TRUE,
                  !.errors = IF narrationText = <<>>
                             THEN Append(@, LineError(index, EmptyNarrationMsg))
                             ELSE @]

\* lines 449-460
CheckCharacter(v, trimmedLine, index) ==
    LET colonIndex == IndexOf(trimmedLine, ":")
        speaker == Trim(Substring(trimmedLine, 0, colonIndex))
        t == Trim(SubstringFrom(trimmedLine, colonIndex + 1))
        noSpeaker == IF speaker = <<>>
                     THEN <<LineError(index, EmptySpeakerMsg)>> ELSE <<>>
        noText == IF t = <<>>
                  THEN <<LineError(index, EmptyTextMsg)>> ELSE <<>>
    IN  [v EXCEPT !.hasValidDialogue = TRUE,
                  !.errors = @ \o noSpeaker \o noText]

\* lines 461-467
CheckInvalid(v, index) ==
    [v EXCEPT !.errors = Append(@, LineError(index, InvalidFormatMsg))]

\* the forEach callback, lines 398-468
ValidateLineOp(v, line, index) ==
    LET trimmedLine == Trim(line)
    IN  IF StartsWith(trimmedLine, ChoicePrefix)
            THEN CheckChoiceStart(v)
        ELSE IF v.inChoiceBlock /\ StartsWith(trimmedLine, EndChoicePrefix)
            THEN CheckChoiceEnd(v, index)
        ELSE IF v.inChoiceBlock
            THEN CheckChoiceContent(v, trimmedLine)
        ELSE IF StartsWith(trimmedLine, NarrationPrefix)
            THEN CheckNarration(v, trimmedLine, index)
        ELSE IF Includes(trimmedLine, ":")
                    /\ ~StartsWith(trimmedLine, DialoguePrefix)
            THEN CheckCharacter(v, trimmedLine, index)
        ELSE IF trimmedLine # <<>> /\ ~StartsWith(trimmedLine, DialoguePrefix)
            THEN CheckInvalid(v, index)
        ELSE v

\* the returned value without the early return for a text of no line
ValidateEnd_NoEarlyReturn(ls, v) ==
    IF ~v.hasValidDialogue
        THEN Append(v.errors, TextError(NoValidDialogueMsg))
    ELSE v.errors

\* lines 388-391 and 470-476: the value returned for the filtered lines,
\* v the validator state after the loop
ValidateEnd(ls, v) ==
    IF Len(ls) = 0 THEN <<TextError(NoTextMsg)>>
    ELSE IF ~v.hasValidDialogue
        THEN Append(v.errors, TextError(NoValidDialogueMsg))
    ELSE v.errors

\* the validator state after the first k filtered lines
RECURSIVE ValidateLines(_, _)
ValidateLines(ls, k) ==
    IF k = 0 THEN ValidatorInit
    ELSE ValidateLineOp(ValidateLines(ls, k - 1), ls[k], k - 1)

\* validateDialogueText(text) as one call
ValidateDialogueText(t) ==
    LET ls == FilterLines(t)
    IN  ValidateEnd(ls, ValidateLines(ls, Len(ls)))

ValidatorState ==
    [errors |-> errors, hasValidDialogue |-> hasValidDialogue,
     inChoiceBlock |-> vInChoiceBlock, choiceOptions |-> choiceOptions,
     choiceTargets |-> choiceTargets]

SetValidatorState(v) ==
    /\ errors' = v.errors
    /\ hasValidDialogue' = v.hasValidDialogue
    /\ vInChoiceBlock' = v.inChoiceBlock
    /\ choiceOptions' = v.choiceOptions
    /\ choiceTargets' = v.choiceTargets

-----------------------------------------------------------------------------
(* createBatchDialogueData, createExportStructure, generateZipFileStructure *)
(* (dialogueService.js 648-744).                                            *)

\* the sequence padded like the scene
CreateBatchDialogueDataOp_PaddedSequence(t, scene, sequence, title, now) ==
    LET ds == ConvertTextToDialogues(t).dialogues
    IN  [metadata |->
            [scene |-> <<"SCENE_">> \o PadStart(scene, 2, "0"),
             sequence |-> <<"SEQUENCE_">> \o PadStart(sequence, 2, "0"),
             title |-> IF title # <<>> THEN title
                       ELSE <<"Dialogue", " ">> \o scene \o <<"-">> \o sequence,
             timestamp |-> now,
             totalDialogues |-> Len(ds)],
         dialogues |-> ds]

\* lines 648-661; now stands for new Date().toISOString()
CreateBatchDialogueDataOp(t, scene, sequence, title, now) ==
    LET ds == ConvertTextToDialogues(t).dialogues
    IN  [metadata |->
            [scene |-> <<"SCENE_">> \o PadStart(scene, 2, "0"),
             sequence |-> <<"SEQUENCE_">> \o sequence,
             title |-> IF title # <<>> THEN title
                       ELSE <<"Dialogue", " ">> \o scene \o <<"-">> \o sequence,
             timestamp |-> now,
             totalDialogues |-> Len(ds)],
         dialogues |-> ds]

\* the object literal built for one node, lines 667-686 and 711-730; a key
\* whose value is undefined is no key of the exported JSON
ExportNode(d) ==
    LET type == IF "type" \in DOMAIN d THEN d.type ELSE "undefined"
    IN
    IF type = "narration" THEN [type |-> "narration", text |-> d.text]
    ELSE IF type = "character"
        THEN [type |-> "character", speaker |-> d.speaker, text |-> d.text]
    ELSE IF type = "choice"
        THEN IF "question" \in DOMAIN d
             THEN [type |-> "choice", question |-> d.question,
                   options |-> d.options,
                   targetSequences |-> d.targetSequences]
             ELSE [type |-> "choice", options |-> d.options,
                   targetSequences |-> d.targetSequences]
    ELSE d

\* lines 663-689
CreateExportStructureOp(dialogueData) ==
    [dialogues |-> [k \in 1..Len(dialogueData.dialogues) |->
                        ExportNode(dialogueData.dialogues[k])]]

\* structure[figmaFilePath] = null
NullFile == [placeholder |-> TRUE]

\* structure[key] = value
Put(obj, key, value) ==
    [k \in DOMAIN obj \cup {key} |-> IF k = key THEN value ELSE obj[k]]

\* the forEach callback of generateZipFileStructure, lines 696-741
ZipEntry(struct, dialogue, includeFigma) ==
    LET scenePath == dialogue.metadata.scene
        sequencePath == scenePath \o <<"/">> \o dialogue.metadata.sequence
        jsonFilePath == sequencePath \o <<"/", "dialogue.json">>
        figmaFilePath == sequencePath \o <<"/", "dialogue.figma.json">>
        withJson == Put(struct, jsonFilePath, CreateExportStructureOp(dialogue))
    IN  IF includeFigma THEN Put(withJson, figmaFilePath, NullFile) ELSE withJson

\* lines 691-744: const structure = {}; batchDialogues.forEach(...)
RECURSIVE ZipUpTo(_, _, _)
ZipUpTo(batchDialogues, k, includeFigma) ==
    IF k = 0 THEN [key \in {} |-> NullFile]
    ELSE ZipEntry(ZipUpTo(batchDialogues, k - 1, includeFigma),
                  batchDialogues[k], includeFigma)

GenerateZipFileStructureOp(batchDialogues, includeFigma) ==
    ZipUpTo(batchDialogues, Len(batchDialogues), includeFigma)

\* no value yet
NoValue == [none |-> TRUE]

-----------------------------------------------------------------------------
(* The inputs.                                                             *)

LBlank == <<" ">>
LHolmes == <<"Holmes", ":", " ", Quote, "The game is afoot.", Quote>>
LWatson == <<"Watson", ":", " ", Quote, "Indeed.", Quote>>
LTwoColons == <<" ", "Watson", " ", ":", " ", "Indeed.", ":", "Yes", " ">>
LNoText == <<"Watson", ":">>
LNoSpeaker == <<":", " ", "Indeed.">>
LNoColon == <<" ", "Indeed.", " ">>
LNarration == <<"NARRATION", ":", " ", "The fog rolled in.">>
LNoNarration == <<"NARRATION", ":", " ">>
LChoice == <<"CHOICE", ":", " ", "Proceed?">>
LNoQuestion == <<"CHOICE", ":">>
LOptionYes == <<"OPTION", ":", " ", "Yes">>
LOptionNo == <<" ", "OPTION", ":", "No", " ">>
LTargetA == <<"TARGET", ":", " ", "A">>
LTargetB == <<"TARGET", ":", "B">>
LEndChoice == <<"END_CHOICE">>
LHeader == <<"Dialogue", ":">>

\* the lines of the general input family
Lines ==
    {LBlank, LHolmes, LWatson, LTwoColons, LNoText, LNoSpeaker, LNoColon,
     LNarration, LNoNarration, LChoice, LNoQuestion, LOptionYes, LTargetA,
     LEndChoice, LHeader}

\* the sequences over S of length lo..hi
SeqsOf(S, lo, hi) == UNION {[1..k -> S] : k \in lo..hi}

\* every text of at most MaxLines physical lines; "" is one empty line
GeneralTexts == SeqsOf(Lines, 1, MaxLines) \cup {<< <<>> >>}

\* a choice block of at most MaxBody OPTION:/TARGET: lines in any order,
\* closed by END_CHOICE, after at most one other line
ChoiceTexts ==
    {pre \o <<open>> \o body \o <<LEndChoice>> :
        pre \in {<<>>, <<LHolmes>>, <<LNarration>>},
        open \in {LChoice, LNoQuestion},
        body \in SeqsOf({LOptionYes, LOptionNo, LTargetA, LTargetB}, 0, MaxBody)}

Texts == GeneralTexts \cup ChoiceTexts

\* the texts handed to createBatchDialogueData
BatchTexts ==
    SeqsOf({LHolmes, LNarration, LChoice, LNoQuestion, LOptionYes, LTargetA,
            LEndChoice}, 1, MaxBatchLines)

Scenes == {<<"2">>, <<"1", "2">>, <<"1", "2", "3">>}
Sequences == {<<"0", "5", "A">>, <<"7">>}
Titles == {<<>>, <<"Intro">>}
\* the values of the clock
MaxClock == 2
Clock == 1..MaxClock

-----------------------------------------------------------------------------
(* The calls.                                                              *)

InitCommon ==
    /\ idx = 1
    /\ dialogues = ParserInit.dialogues
    /\ currentSpeaker = ParserInit.currentSpeaker
    /\ currentText = ParserInit.currentText
    /\ inChoiceBlock = ParserInit.inChoiceBlock
    /\ currentChoice = ParserInit.currentChoice
    /\ origin = ParserInit.origin
    /\ speakerLine = ParserInit.speakerLine
    /\ choiceLine = ParserInit.choiceLine
    /\ errors = ValidatorInit.errors
    /\ hasValidDialogue = ValidatorInit.hasValidDialogue
    /\ vInChoiceBlock = ValidatorInit.inChoiceBlock
    /\ choiceOptions = ValidatorInit.choiceOptions
    /\ choiceTargets = ValidatorInit.choiceTargets
    /\ document = NoValue
    /\ exported = NoValue
    /\ structure = NoValue

\* no layout call is made
InitNoLayout ==
    /\ batch = <<>>
    /\ thisTotalDialogues = <<>>
    /\ figma = NoValue

\* no conversion through the API is made
InitNoGpt ==
    /\ gptCall = NoValue
    /\ gptResult = NoValue

\* the state of the DialogueConverter component when it is mounted
InitConverter ==
    /\ inputText = <<>>
    /\ sceneNumber = <<"0", "1">>
    /\ sequenceNumber = <<"0", "1">>
    /\ dialogueTitle = <<>>
    /\ isProcessing = FALSE
    /\ uiBatchDialogues = <<>>
    /\ validationErrors = <<>>
    /\ isValid = FALSE
    /\ editingItem = NoValue
    /\ editedItems = {}
    /\ pending = NoValue
    /\ nextId = 1

\* convertTextToDialogues(text), then validateDialogueText(text)
Init ==
    /\ text \in Texts
    /\ lines = FilterLines(text)
    /\ pc = "convert"
    /\ args = NoValue
    /\ InitCommon
    /\ InitNoGpt
    /\ InitConverter
    /\ InitNoLayout

\* one turn of the forEach of convertTextToDialogues
ConvertLine ==
    /\ pc = "convert"
    /\ idx <= Len(lines)
    /\ SetParserState(ParseLine(ParserState, lines[idx], idx))
    /\ idx' = idx + 1
    /\ UNCHANGED <<text, lines, pc>>
    /\ UNCHANGED validatorVars
    /\ UNCHANGED batchVars
    /\ UNCHANGED layoutVars
    /\ UNCHANGED gptVars
    /\ UNCHANGED converterVars

\* the end of convertTextToDialogues: the last dialogue is added
ConvertReturn ==
    /\ pc = "convert"
    /\ idx > Len(lines)
    /\ SetParserState(ParseEnd(ParserState))
    /\ pc' = "validate"
    /\ idx' = 1
    /\ UNCHANGED <<text, lines>>
    /\ UNCHANGED validatorVars
    /\ UNCHANGED batchVars
    /\ UNCHANGED layoutVars
    /\ UNCHANGED gptVars
    /\ UNCHANGED converterVars

\* one turn of the forEach of validateDialogueText
ValidateLine ==
    /\ pc = "validate"
    /\ idx <= Len(lines)
    /\ SetValidatorState(
           ValidateLineOp(ValidatorState, lines[idx], idx - 1))
    /\ idx' = idx + 1
    /\ UNCHANGED <<text, lines, pc>>
    /\ UNCHANGED parserVars
    /\ UNCHANGED batchVars
    /\ UNCHANGED layoutVars
    /\ UNCHANGED gptVars
    /\ UNCHANGED converterVars

\* the end of validateDialogueText, or its early return for no line
ValidateReturn ==
    /\ pc = "validate"
    /\ idx > Len(lines)
    /\ errors' = ValidateEnd(lines, ValidatorState)
    /\ pc' = "done"
    /\ UNCHANGED <<text, lines, idx, hasValidDialogue, vInChoiceBlock, choiceOptions,
                   choiceTargets>>
    /\ UNCHANGED parserVars
    /\ UNCHANGED batchVars
    /\ UNCHANGED layoutVars
    /\ UNCHANGED gptVars
    /\ UNCHANGED converterVars

Next == ConvertLine \/ ConvertReturn \/ ValidateLine \/ ValidateReturn

Spec == Init /\ [][Next]_vars

\* createBatchDialogueData, then the two exports of its result
InitBatch ==
    /\ text \in BatchTexts
    /\ lines = FilterLines(text)
    /\ args \in [scene : Scenes, sequence : Sequences, title : Titles]
    /\ pc = "batch"
    /\ InitCommon
    /\ InitNoLayout
    /\ InitNoGpt
    /\ InitConverter

CreateBatchDialogueData ==
    /\ pc = "batch"
    /\ \E now \in Clock :
            document' = CreateBatchDialogueDataOp(text, args.scene,
                                                  args.sequence, args.title, now)
    /\ SetParserState(ConvertTextToDialogues(text))
    /\ pc' = "export"
    /\ UNCHANGED <<text, lines, idx, args, exported, structure>>
    /\ UNCHANGED validatorVars
    /\ UNCHANGED layoutVars
    /\ UNCHANGED gptVars
    /\ UNCHANGED converterVars

CreateExportStructure ==
    /\ pc = "export"
    /\ exported' = CreateExportStructureOp(document)
    /\ pc' = "zip"
    /\ UNCHANGED <<text, lines, idx, args, document, structure>>
    /\ UNCHANGED parserVars
    /\ UNCHANGED validatorVars
    /\ UNCHANGED layoutVars
    /\ UNCHANGED gptVars
    /\ UNCHANGED converterVars

GenerateZipFileStructure ==
    /\ pc = "zip"
    /\ \E includeFigma \in BOOLEAN :
            structure' = GenerateZipFileStructureOp(<<document>>, includeFigma)
    /\ pc' = "done"
    /\ UNCHANGED <<text, lines, idx, args, document, exported>>
    /\ UNCHANGED parserVars
    /\ UNCHANGED validatorVars
    /\ UNCHANGED layoutVars
    /\ UNCHANGED gptVars
    /\ UNCHANGED converterVars

NextBatch ==
    CreateBatchDialogueData \/ CreateExportStructure \/ GenerateZipFileStructure

SpecBatch == InitBatch /\ [][NextBatch]_vars

-----------------------------------------------------------------------------
(* The layout engine: FigmaApiService (src/unnamed/part_001).  A layout    *)
(* node is a record with id, name, type, children and absoluteBoundingBox; *)
(* a TEXT node has characters and style instead of children.  Colours      *)
(* (fills), corner radii and font families are constants of the code that  *)
(* no computation reads; they are left out of the records.  A template     *)
(* string is the concatenation of its parts, a number printed in it is its *)
(* sequence of decimal digits, and a Map is the sequence of its entries in *)
(* insertion order.                                                        *)

Box(x, y, width, height) == [x |-> x, y |-> y, width |-> width, height |-> height]

Frame(id, name, children, box) ==
    [id |-> id, name |-> name, type |-> "FRAME", children |-> children,
     absoluteBoundingBox |-> box]

Rectangle(id, name, box) ==
    [id |-> id, name |-> name, type |-> "RECTANGLE", absoluteBoundingBox |-> box]

TextNode(id, name, characters, style, box) ==
    [id |-> id, name |-> name, type |-> "TEXT", characters |-> characters,
     style |-> style, absoluteBoundingBox |-> box]

Style(fontSize, fontWeight) == [fontSize |-> fontSize, fontWeight |-> fontWeight]
Italic(fontSize, fontWeight) ==
    [fontSize |-> fontSize, fontWeight |-> fontWeight, fontStyle |-> "italic"]

\* the character U+2022 of the template strings
Bullet == "(bullet)"

\* String(n) for a number n >= 0
Digit(n) == <<"0", "1", "2", "3", "4", "5", "6", "7", "8", "9">>[n + 1]
RECURSIVE NumStr(_)
NumStr(n) == IF n < 10 THEN <<Digit(n)>> ELSE NumStr(n \div 10) \o <<Digit(n % 10)>>

\* JSON.stringify(value, null, 2): the text that holds every key and value
JsonStringify(value) == <<[json |-> value]>>

\* Map.has, and the "if (!map.has(key)) map.set(key, []); map.get(key).push(x)"
\* of lines 141-144 and 245-248
MapHas(m, key) == \E i \in 1..Len(m) : m[i].key = key
MapPush(m, key, x) ==
    IF MapHas(m, key)
    THEN [i \in 1..Len(m) |->
            IF m[i].key = key
            THEN [key |-> key, value |-> Append(m[i].value, x)]
            ELSE m[i]]
    ELSE Append(m, [key |-> key, value |-> <<x>>])

\* lines 138-145: scenesMap after the first k documents
RECURSIVE ScenesMapUpTo(_, _)
ScenesMapUpTo(batchDialogues, k) ==
    IF k = 0 THEN <<>>
    ELSE MapPush(ScenesMapUpTo(batchDialogues, k - 1),
                 batchDialogues[k].metadata.scene, batchDialogues[k])

ScenesMapOf(batchDialogues) == ScenesMapUpTo(batchDialogues, Len(batchDialogues))

\* lines 147-150: the sum of dialogue.dialogues.length over the first k
RECURSIVE TotalDialoguesUpTo(_, _)
TotalDialoguesUpTo(batchDialogues, k) ==
    IF k = 0 THEN 0
    ELSE TotalDialoguesUpTo(batchDialogues, k - 1) + Len(batchDialogues[k].dialogues)

TotalDialoguesOf(batchDialogues) ==
    TotalDialoguesUpTo(batchDialogues, Len(batchDialogues))

\* lines 152-155
TotalHeightOf(totalDialogues, sceneCount) ==
    Max({1200, totalDialogues * 120 + sceneCount * 200 + 300})

\* lines 659-661
CalculateSequenceHeight(dialogue) == 50 + Len(dialogue.dialogues) * 100 + 20

\* lines 646-654
RECURSIVE SequenceHeightsUpTo(_, _)
SequenceHeightsUpTo(ds, k) ==
    IF k = 0 THEN 0
    ELSE SequenceHeightsUpTo(ds, k - 1) + CalculateSequenceHeight(ds[k])

CalculateSceneHeight(ds) == SequenceHeightsUpTo(ds, Len(ds)) + Len(ds) * 20

\* lines 187-230
CreateMasterHeader(sceneCount, totalDialogues) ==
    Frame(<<"master-header">>, <<"Master Header">>,
          << Rectangle(<<"header-bg">>, <<"Header Background">>,
                       Box(0, 0, 1400, 100)),
             TextNode(<<"title">>, <<"Title">>,
                      <<"Dialogue Studio - All Scenes">>, Style(32, 800),
                      Box(40, 20, 600, 40)),
             TextNode(<<"stats">>, <<"Statistics">>,
                      NumStr(sceneCount) \o <<" scenes ", Bullet, " ">>
                          \o NumStr(totalDialogues) \o <<" total dialogues">>,
                      Style(16, 400), Box(40, 60, 400, 20)) >>,
          Box(0, 0, 1400, 100))

\* lines 449-488
CreateCharacterDialogue(dialogue, index, yPosition) ==
    Frame(<<"char-dialogue-">> \o NumStr(index),
          <<"Character: ">> \o dialogue.speaker,
          << TextNode(<<"speaker-">> \o NumStr(index), <<"Speaker">>,
                      dialogue.speaker, Style(16, 700), Box(15, 10, 200, 24)),
             TextNode(<<"text-">> \o NumStr(index), <<"Dialogue Text">>,
                      dialogue.text, Style(14, 400), Box(15, 35, 1290, 50)) >>,
          Box(0, yPosition, 1320, 90))

\* lines 493-520
CreateNarrationDialogue(dialogue, index, yPosition) ==
    Frame(<<"narration-">> \o NumStr(index), <<"Narration">>,
          << TextNode(<<"narration-text-">> \o NumStr(index),
                      <<"Narration Text">>, dialogue.text, Italic(14, 400),
                      Box(15, 10, 1290, 50)) >>,
          Box(0, yPosition, 1320, 70))

\* obj[key] where the value is a string; the text "undefined" that a node
\* shows for a property the object does not have
Undefined == <<"undefined">>
Field(obj, key) == IF key \in DOMAIN obj THEN obj[key] ELSE Undefined

\* dialogue.type, which matches no case of the switch when it is missing
TypeOf(dialogue) == IF "type" \in DOMAIN dialogue THEN dialogue.type ELSE "undefined"

\* lines 526-542: dialogue.options.map(...)
ChoiceItems(dialogue, index) ==
    [o \in 1..Len(dialogue.options) |->
        TextNode(<<"choice-option-">> \o NumStr(index) \o <<"-">> \o NumStr(o - 1),
                 <<"Option ">> \o NumStr(o),
                 <<Bullet, " ">> \o dialogue.options[o], Style(14, 400),
                 Box(30, 40 + (o - 1) * 25, 1275, 20))]

\* lines 525-576
CreateChoiceDialogue(dialogue, index, yPosition) ==
    Frame(<<"choice-">> \o NumStr(index), <<"Choice Block">>,
          << TextNode(<<"choice-question-">> \o NumStr(index),
                      <<"Choice Question">>, Field(dialogue, "question"),
                      Style(16, 600), Box(15, 10, 1290, 24)) >>
              \o ChoiceItems(dialogue, index),
          Box(0, yPosition, 1320, 100 + Len(dialogue.options) * 25))

\* lines 581-605
CreateGenericDialogue(dialogue, index, yPosition) ==
    Frame(<<"generic-">> \o NumStr(index), <<"Generic Dialogue">>,
          << TextNode(<<"generic-text-">> \o NumStr(index), <<"Generic Text">>,
                      JsonStringify(dialogue), Style(12, 400),
                      Box(15, 10, 1290, 50)) >>,
          Box(0, yPosition, 1320, 70))

\* every item built as a generic one
CreateDialogueItem_AlwaysGeneric(dialogue, index, yPosition) ==
    CreateGenericDialogue(dialogue, index, yPosition)

\* lines 433-444: switch (dialogue.type)
CreateDialogueItem(dialogue, index, yPosition) ==
    LET type == TypeOf(dialogue)
    IN  IF type = "character"
            THEN CreateCharacterDialogue(dialogue, index, yPosition)
        ELSE IF type = "narration"
            THEN CreateNarrationDialogue(dialogue, index, yPosition)
        ELSE IF type = "choice"
            THEN CreateChoiceDialogue(dialogue, index, yPosition)
        ELSE CreateGenericDialogue(dialogue, index, yPosition)

\* lines 424-428; index counts from 0
CreateDialogueItems(ds, startY) ==
    [i \in 1..Len(ds) |-> CreateDialogueItem(ds[i], i - 1, startY + (i - 1) * 100)]

\* lines 395-419
CreateSequenceHeader(metadata, startY) ==
    Frame(<<"seq-header-">> \o metadata.scene \o <<"-">> \o metadata.sequence,
          <<"Sequence Header">>,
          << TextNode(<<"seq-title-">> \o metadata.scene \o <<"-">>
                          \o metadata.sequence,
                      <<"Sequence Title">>,
                      metadata.sequence \o <<": ">>
                          \o (IF metadata.title # <<>> THEN metadata.title
                              ELSE <<"Untitled">>),
                      Style(18, 600), Box(15, 10, 800, 25)) >>,
          Box(0, 0, 1320, 40))

\* lines 369-390
CreateSequenceFrame(dialogue, startY) ==
    LET metadata == dialogue.metadata
        sequenceDialogues == dialogue.dialogues
        sequenceHeight == CalculateSequenceHeight(dialogue)
    IN  Frame(<<"sequence-">> \o metadata.scene \o <<"-">> \o metadata.sequence,
              <<"Sequence: ">> \o metadata.sequence,
              <<CreateSequenceHeader(metadata, startY)>>
                  \o CreateDialogueItems(sequenceDialogues, startY + 50),
              Box(20, startY, 1320, sequenceHeight))

\* lines 353-364: currentY before the i-th sequence
RECURSIVE SequenceStartY(_, _, _)
SequenceStartY(ds, startY, i) ==
    IF i = 1 THEN startY
    ELSE SequenceStartY(ds, startY, i - 1) + CalculateSequenceHeight(ds[i - 1]) + 20

CreateSequenceFrames(ds, startY) ==
    [i \in 1..Len(ds) |-> CreateSequenceFrame(ds[i], SequenceStartY(ds, startY, i))]

\* lines 306-348
CreateSceneHeader(sceneKey, dialogueCount, startY) ==
    Frame(<<"scene-header-">> \o sceneKey, <<"Scene Header">>,
          << Rectangle(<<"scene-bg-">> \o sceneKey, <<"Scene Background">>,
                       Box(0, 0, 1360, 60)),
             TextNode(<<"scene-title-">> \o sceneKey, <<"Scene Title">>,
                      sceneKey, Style(24, 700), Box(20, 15, 400, 30)),
             TextNode(<<"scene-count-">> \o sceneKey, <<"Sequence Count">>,
                      NumStr(dialogueCount) \o <<" sequences">>, Style(16, 400),
                      Box(1000, 20, 200, 20)) >>,
          Box(0, 0, 1360, 60))

\* lines 281-301
CreateSceneFrame(sceneKey, ds, startY) ==
    LET sceneHeight == CalculateSceneHeight(ds)
    IN  Frame(<<"scene-">> \o sceneKey, <<"Scene: ">> \o sceneKey,
              <<CreateSceneHeader(sceneKey, Len(ds), startY)>>
                  \o CreateSequenceFrames(ds, startY + 80),
              Box(20, startY, 1360, sceneHeight + 80))

\* lines 243-250: sequenceKeyToDialogues after the first k documents of a scene
RECURSIVE SequenceMapUpTo(_, _)
SequenceMapUpTo(ds, k) ==
    IF k = 0 THEN <<>>
    ELSE LET sequence == ds[k].metadata.sequence
             sequenceKey == IF sequence # <<>> THEN sequence
                            ELSE <<"SEQUENCE_01">>
         IN  MapPush(SequenceMapUpTo(ds, k - 1), sequenceKey, ds[k])

\* items.flatMap((d) => d.dialogues || []), over the first k items
RECURSIVE FlatMapDialogues(_, _)
FlatMapDialogues(items, k) ==
    IF k = 0 THEN <<>>
    ELSE FlatMapDialogues(items, k - 1) \o items[k].dialogues

\* the sequences of a scene merged in the order the documents came, instead
\* of grouped by sequence key
MergedDialogues_Ungrouped(ds, sceneKey) ==
    [i \in 1..Len(ds) |->
        [metadata |-> [scene |-> ds[i].metadata.scene,
                       sequence |-> ds[i].metadata.sequence,
                       title |-> ds[i].metadata.title],
         dialogues |-> ds[i].dialogues]]

\* lines 243-266
MergedDialogues(ds, sceneKey) ==
    LET sequenceKeyToDialogues == SequenceMapUpTo(ds, Len(ds))
    IN  [i \in 1..Len(sequenceKeyToDialogues) |->
            LET sequenceKey == sequenceKeyToDialogues[i].key
                items == sequenceKeyToDialogues[i].value
                base == items[1]
            IN  [metadata |->
                    [scene |-> IF base.metadata.scene # <<>>
                               THEN base.metadata.scene ELSE sceneKey,
                     sequence |-> sequenceKey,
                     title |-> IF base.metadata.title # <<>>
                               THEN base.metadata.title ELSE sequenceKey],
                 dialogues |-> FlatMapDialogues(items, Len(items))]]

\* lines 237-241 and 272: currentY before the i-th scene
RECURSIVE SceneStartY(_, _)
SceneStartY(scenesMap, i) ==
    IF i = 1 THEN 120
    ELSE SceneStartY(scenesMap, i - 1)
            + CalculateSceneHeight(MergedDialogues(scenesMap[i - 1].value,
                                                   scenesMap[i - 1].key))
            + 100

\* lines 235-276
CreateSceneFrames(scenesMap) ==
    [i \in 1..Len(scenesMap) |->
        CreateSceneFrame(scenesMap[i].key,
                         MergedDialogues(scenesMap[i].value, scenesMap[i].key),
                         SceneStartY(scenesMap, i))]

\* lines 610-641
CreateMasterFooter(sceneCount, totalHeight) ==
    LET footerY == totalHeight - 60
    IN  Frame(<<"master-footer">>, <<"Master Footer">>,
              << Rectangle(<<"footer-bg">>, <<"Footer Background">>,
                           Box(0, 0, 1400, 60)),
                 TextNode(<<"footer-info">>, <<"Footer Info">>,
                          <<"Dialogue Studio ", Bullet, " ">> \o NumStr(sceneCount)
                              \o <<" scenes ", Bullet, " Generated by GPT">>,
                          Style(14, 400), Box(40, 20, 600, 20)) >>,
              Box(0, footerY, 1400, 60))

\* lines 136-182
CreateFigmaDocumentStructureOp(batchDialogues) ==
    LET scenesMap == ScenesMapOf(batchDialogues)
        totalDialogues == TotalDialoguesOf(batchDialogues)
        totalHeight == TotalHeightOf(totalDialogues, Len(scenesMap))
    IN  [document |->
            [id |-> <<"0:0">>, name |-> <<"All Dialogues">>, type |-> "DOCUMENT",
             children |->
                << [id |-> <<"0:1">>, name |-> <<"Page 1">>, type |-> "PAGE",
                    children |->
                        <<CreateMasterHeader(Len(scenesMap), totalDialogues)>>
                            \o CreateSceneFrames(scenesMap)
                            \o <<CreateMasterFooter(Len(scenesMap), totalHeight)>>,
                    absoluteBoundingBox |-> Box(0, 0, 1400, totalHeight)] >>]]

-----------------------------------------------------------------------------
(* The layout engine: FigmaFileGenerator                                   *)
(* (src/src/services/figmaFileGenerator.js 611-1134), the module's single  *)
(* exported instance.  Its operators carry the prefix Gen where            *)
(* FigmaApiService has a method of the same name.  now is the reading of   *)
(* the clock that new Date() takes, and a date printed in a text is the    *)
(* digits of that reading.                                                 *)

\* lines 1109-1111
GenCalculateSequenceHeight(dialogue) == 60 + Len(dialogue.dialogues) * 100 + 30

\* lines 1096-1104
RECURSIVE GenSequenceHeightsUpTo(_, _)
GenSequenceHeightsUpTo(ds, k) ==
    IF k = 0 THEN 0
    ELSE GenSequenceHeightsUpTo(ds, k - 1) + GenCalculateSequenceHeight(ds[k])

GenCalculateSceneHeight(ds) == GenSequenceHeightsUpTo(ds, Len(ds)) + Len(ds) * 20

\* lines 1116-1119: this.totalDialogues || 0; the field is <<>> while it is
\* undefined and <<n>> once it holds the number n
GetTotalDialogues(thisTotal) == IF thisTotal = <<>> THEN 0 ELSE thisTotal[1]

\* the header whose time stamp node is named after the time of the call
GenCreateMasterHeader_TimedId(sceneCount, thisTotal, now) ==
    Frame(<<"master-header">>, <<"Master Header">>,
          << Rectangle(<<"master-header-bg">>, <<"Master Header Background">>,
                       Box(0, 0, 1400, 100)),
             TextNode(<<"master-title">>, <<"Master Title">>,
                      <<"Dialogue Studio - All Scenes">>, Style(32, 800),
                      Box(40, 20, 600, 40)),
             TextNode(<<"scene-count">>, <<"Scene Count">>,
                      NumStr(sceneCount) \o <<" scenes ", Bullet, " ">>
                          \o NumStr(GetTotalDialogues(thisTotal)) \o <<" total dialogues">>,
                      Style(16, 400), Box(40, 60, 400, 20)),
             TextNode(<<"generated-time-">> \o NumStr(now), <<"Generated Time">>,
                      <<"Generated: ">> \o NumStr(now), Style(14, 400),
                      Box(1000, 60, 300, 20)) >>,
          Box(0, 0, 1400, 100))

\* lines 711-802; thisTotal is this.totalDialogues
GenCreateMasterHeader(sceneCount, thisTotal, now) ==
    Frame(<<"master-header">>, <<"Master Header">>,
          << Rectangle(<<"master-header-bg">>, <<"Master Header Background">>,
                       Box(0, 0, 1400, 100)),
             TextNode(<<"master-title">>, <<"Master Title">>,
                      <<"Dialogue Studio - All Scenes">>, Style(32, 800),
                      Box(40, 20, 600, 40)),
             TextNode(<<"scene-count">>, <<"Scene Count">>,
                      NumStr(sceneCount) \o <<" scenes ", Bullet, " ">>
                          \o NumStr(GetTotalDialogues(thisTotal))
                          \o <<" total dialogues">>,
                      Style(16, 400), Box(40, 60, 400, 20)),
             TextNode(<<"generated-time">>, <<"Generated Time">>,
                      <<"Generated: ">> \o NumStr(now), Style(14, 400),
                      Box(1000, 60, 300, 20)) >>,
          Box(0, 0, 1400, 100))

\* lines 217-278
GenCreateCharacterDialogue(dialogue, index, yPosition) ==
    Frame(<<"dialogue-">> \o NumStr(index),
          <<"Character Dialogue - ">> \o dialogue.speaker,
          << TextNode(<<"speaker-">> \o NumStr(index), <<"Speaker">>,
                      dialogue.speaker, Style(16, 700),
                      Box(40, yPosition, 200, 24)),
             TextNode(<<"text-">> \o NumStr(index), <<"Dialogue Text">>,
                      dialogue.text, Style(14, 400),
                      Box(40, yPosition + 30, 1120, 60)) >>,
          Box(0, yPosition - 20, 1200, 100))

\* lines 283-327
GenCreateNarrationDialogue(dialogue, index, yPosition) ==
    Frame(<<"narration-">> \o NumStr(index), <<"Narration">>,
          << TextNode(<<"narration-text-">> \o NumStr(index),
                      <<"Narration Text">>, dialogue.text, Italic(14, 400),
                      Box(40, yPosition, 1120, 60)) >>,
          Box(0, yPosition - 20, 1200, 100))

\* lines 332-395
GenCreateChoiceDialogue(dialogue, index, yPosition) ==
    LET choiceItems ==
            [o \in 1..Len(dialogue.options) |->
                TextNode(<<"choice-option-">> \o NumStr(index) \o <<"-">>
                             \o NumStr(o - 1),
                         <<"Choice Option ">> \o NumStr(o),
                         <<Bullet, " ">> \o dialogue.options[o], Style(14, 400),
                         Box(60, yPosition + 40 + (o - 1) * 25, 1100, 20))]
    IN  Frame(<<"choice-">> \o NumStr(index), <<"Choice Block">>,
              << TextNode(<<"choice-question-">> \o NumStr(index),
                          <<"Choice Question">>, Field(dialogue, "question"),
                          Style(16, 600), Box(40, yPosition, 1120, 24)) >>
                  \o choiceItems,
              Box(0, yPosition - 20, 1200, 100 + Len(dialogue.options) * 25))

\* lines 400-443
GenCreateGenericDialogue(dialogue, index, yPosition) ==
    Frame(<<"generic-">> \o NumStr(index), <<"Generic Dialogue">>,
          << TextNode(<<"generic-text-">> \o NumStr(index), <<"Generic Text">>,
                      JsonStringify(dialogue), Style(12, 400),
                      Box(40, yPosition, 1120, 60)) >>,
          Box(0, yPosition - 20, 1200, 100))

\* lines 199-212: the method takes (dialogue, index) and computes yPosition
\* itself; a third argument is not read
GenCreateDialogueItem(dialogue, index) ==
    LET yPosition == 100 + index * 120
        type == TypeOf(dialogue)
    IN  IF type = "character"
            THEN GenCreateCharacterDialogue(dialogue, index, yPosition)
        ELSE IF type = "narration"
            THEN GenCreateNarrationDialogue(dialogue, index, yPosition)
        ELSE IF type = "choice"
            THEN GenCreateChoiceDialogue(dialogue, index, yPosition)
        ELSE GenCreateGenericDialogue(dialogue, index, yPosition)

\* lines 981-1035
GenCreateSequenceHeader(metadata, startY) ==
    Frame(<<"sequence-header-">> \o metadata.scene \o <<"-">> \o metadata.sequence,
          <<"Sequence Header">>,
          << TextNode(<<"sequence-title-">> \o metadata.scene \o <<"-">>
                          \o metadata.sequence,
                      <<"Sequence Title">>,
                      metadata.sequence \o <<": ">>
                          \o (IF metadata.title # <<>> THEN metadata.title
                              ELSE <<"Untitled">>),
                      Style(18, 600), Box(15, startY + 15, 800, 25)),
             TextNode(<<"sequence-meta-">> \o metadata.scene \o <<"-">>
                          \o metadata.sequence,
                      <<"Sequence Metadata">>,
                      IF "timestamp" \in DOMAIN metadata
                      THEN NumStr(metadata.timestamp) ELSE <<"No date">>,
                      Style(12, 400), Box(1000, startY + 20, 200, 15)) >>,
          Box(0, startY, 1360, 45))

\* lines 944-976
CreateSequenceBlock(dialogue, startY) ==
    LET metadata == dialogue.metadata
        sequenceDialogues == dialogue.dialogues
        sequenceHeight == GenCalculateSequenceHeight(dialogue)
    IN  Frame(<<"sequence-">> \o metadata.scene \o <<"-">> \o metadata.sequence,
              <<"Sequence: ">> \o metadata.sequence,
              <<GenCreateSequenceHeader(metadata, startY)>>
                  \o [i \in 1..Len(sequenceDialogues) |->
                        GenCreateDialogueItem(sequenceDialogues[i], i - 1)],
              Box(0, startY, 1360, sequenceHeight))

\* lines 914-921: currentY before the i-th document, i up to Len(ds) + 1
RECURSIVE GenSequenceStartY(_, _, _)
GenSequenceStartY(ds, startY, i) ==
    IF i = 1 THEN startY
    ELSE GenSequenceStartY(ds, startY, i - 1)
            + GenCalculateSequenceHeight(ds[i - 1]) + 20

\* lines 913-939
CreateSceneDialoguesContainer(ds, startY) ==
    LET currentY == GenSequenceStartY(ds, startY, Len(ds) + 1)
    IN  Frame(<<"scene-dialogues-">> \o ds[1].metadata.scene,
              <<"Scene Dialogues Container">>,
              [i \in 1..Len(ds) |->
                    CreateSequenceBlock(ds[i], GenSequenceStartY(ds, startY, i))],
              Box(20, startY, 1360, currentY - startY))

\* lines 841-908
GenCreateSceneHeader(sceneKey, dialogueCount, startY) ==
    Frame(<<"scene-header-">> \o sceneKey, <<"Scene Header: ">> \o sceneKey,
          << Rectangle(<<"scene-header-bg-">> \o sceneKey,
                       <<"Scene Header Background">>,
                       Box(20, startY + 20, 1360, 60)),
             TextNode(<<"scene-title-">> \o sceneKey, <<"Scene Title">>,
                      sceneKey, Style(24, 700), Box(40, startY + 35, 400, 30)),
             TextNode(<<"scene-dialogue-count-">> \o sceneKey,
                      <<"Dialogue Count">>,
                      NumStr(dialogueCount) \o <<" sequences">>, Style(16, 400),
                      Box(1000, startY + 40, 200, 20)) >>,
          Box(20, startY + 20, 1360, 60))

\* lines 807-836
CreateScenePage(sceneKey, ds, startY, pageWidth) ==
    LET sceneHeight == GenCalculateSceneHeight(ds)
    IN  Frame(<<"scene-">> \o sceneKey, <<"Scene: ">> \o sceneKey,
              << GenCreateSceneHeader(sceneKey, Len(ds), startY),
                 CreateSceneDialoguesContainer(ds, startY + 80) >>,
              Box(0, startY, pageWidth, sceneHeight + 80))

\* lines 1040-1091
GenCreateMasterFooter(sceneCount, totalHeight) ==
    LET footerY == totalHeight - 60
    IN  Frame(<<"master-footer">>, <<"Master Footer">>,
              << Rectangle(<<"master-footer-bg">>, <<"Master Footer Background">>,
                           Box(0, footerY, 1400, 60)),
                 TextNode(<<"footer-info">>, <<"Footer Info">>,
                          <<"Dialogue Studio ", Bullet, " ">> \o NumStr(sceneCount)
                              \o <<" scenes ", Bullet, " Generated by GPT">>,
                          Style(14, 400), Box(40, footerY + 20, 600, 20)) >>,
              Box(0, footerY, 1400, 60))

\* lines 665-678: currentY before the i-th scene
RECURSIVE GenSceneStartY(_, _)
GenSceneStartY(scenesMap, i) ==
    IF i = 1 THEN 0
    ELSE GenSceneStartY(scenesMap, i - 1)
            + GenCalculateSceneHeight(scenesMap[i - 1].value) + 100

\* lines 660-706
CreateMultiSceneDocument(scenesMap, totalHeight, thisTotal, now) ==
    LET pageWidth == 1400
        pageHeight == totalHeight
        scenePages ==
            [i \in 1..Len(scenesMap) |->
                CreateScenePage(scenesMap[i].key, scenesMap[i].value,
                                GenSceneStartY(scenesMap, i), pageWidth)]
    IN  [id |-> <<"0:0">>, name |-> <<"All Dialogues">>, type |-> "DOCUMENT",
         children |->
            << [id |-> <<"0:1">>, name |-> <<"All Scenes">>, type |-> "PAGE",
                children |->
                    <<GenCreateMasterHeader(Len(scenesMap), thisTotal, now)>>
                        \o scenePages
                        \o <<GenCreateMasterFooter(Len(scenesMap), totalHeight)>>,
                absoluteBoundingBox |-> Box(0, 0, pageWidth, pageHeight)] >>]

\* lines 611-655; thisTotal is this.totalDialogues when the call is made
GenerateSingleFigmaFileOp(batchDialogues, thisTotal, now) ==
    LET scenesMap == ScenesMapOf(batchDialogues)
        totalDialogues == TotalDialoguesOf(batchDialogues)
        totalHeight == Max({1200, totalDialogues * 100 + Len(scenesMap) * 200 + 300})
    IN  [name |-> <<"Dialogues_with_Figma">>,
         lastModified |-> NumStr(now),
         document |-> CreateMultiSceneDocument(scenesMap, totalHeight, thisTotal,
                                               now)]

\* lines 1126-1133: the value assigned to this.totalDialogues; the value
\* returned is JSON.stringify of GenerateSingleFigmaFileOp under that value
GenerateSingleFigmaFileStringOp(batchDialogues, now) ==
    LET total == TotalDialoguesOf(batchDialogues)
    IN  [thisTotalDialogues |-> <<total>>,
         returned |-> JsonStringify(
                          GenerateSingleFigmaFileOp(batchDialogues, <<total>>, now))]

-----------------------------------------------------------------------------
(* The layout calls.  The documents are of the shape createBatchDialogueData*)
(* gives them (scene SCENE_NN, sequence SEQUENCE_x, a title that is not    *)
(* empty); their nodes are those of the parser and, as the language-model  *)
(* path may return them, a node of another type and a node of no type.     *)

\* most documents of a batch
MaxDocs == 3

Scene01 == <<"SCENE_", "0", "1">>
Scene02 == <<"SCENE_", "0", "2">>
Sequence05A == <<"SEQUENCE_", "0", "5", "A">>
Sequence01 == <<"SEQUENCE_", "0", "1">>

NHolmes == CharacterNode(<<"Holmes">>, Quoted(<<"The game is afoot.">>))
NWatson == CharacterNode(<<"Watson">>, Quoted(<<"Indeed.">>))
NFog == NarrationNode(<<"The fog rolled in.">>)
NRain == NarrationNode(<<"Rain.">>)
NProceed ==
    ChoiceNode(<<"Proceed?">>, <<Quoted(<<"Yes">>), Quoted(<<"No">>)>>, <<<<"A">>>>)
NStay == ChoiceNode(<<>>, <<Quoted(<<"Stay">>)>>, <<<<"B">>, <<"C">>>>)
NAction == [type |-> "action", text |-> <<"Exit.">>]
NUntyped == [text |-> <<"Curtain.">>]

\* a document as createBatchDialogueData shapes it
Document(scene, sequence, title, ds) ==
    [metadata |-> [scene |-> scene, sequence |-> sequence, title |-> title,
                   timestamp |-> 1, totalDialogues |-> Len(ds)],
     dialogues |-> ds]

DIntro == Document(Scene01, Sequence05A, <<"Intro">>, <<NHolmes, NFog>>)
DBranch ==
    Document(Scene01, Sequence05A, <<"Dialogue", " ", "1", "-", "0", "5", "A">>,
             <<NProceed, NAction>>)
DFinale ==
    Document(Scene01, Sequence01, <<"Finale">>, <<NStay, NUntyped, NWatson, NRain>>)
DSecond ==
    Document(Scene02, Sequence01, <<"Second">>, <<NStay, NWatson, NHolmes>>)

Documents == {DIntro, DBranch, DFinale, DSecond}

Batches == SeqsOf(Documents, 0, MaxDocs)

\* the batch before its last document was added
Front(b) == SubSeq(b, 1, Len(b) - 1)

\* the batches handed to the layout calls
CallBatches == {batch, Front(batch)}

InitLayout ==
    /\ batch \in Batches
    /\ thisTotalDialogues = <<>>
    /\ figma = NoValue
    /\ text = << <<>> >>
    /\ lines = <<>>
    /\ pc = "layout"
    /\ args = NoValue
    /\ InitCommon
    /\ InitNoGpt
    /\ InitConverter

\* FigmaApiService.createFigmaDocumentStructure(batchDialogues)
CreateFigmaDocumentStructure ==
    /\ pc = "layout"
    /\ \E b \in CallBatches :
            figma' = [by |-> "createFigmaDocumentStructure", batchDialogues |-> b,
                      returned |-> CreateFigmaDocumentStructureOp(b)]
    /\ UNCHANGED <<text, lines, pc, idx, batch, thisTotalDialogues>>
    /\ UNCHANGED parserVars
    /\ UNCHANGED validatorVars
    /\ UNCHANGED batchVars
    /\ UNCHANGED gptVars
    /\ UNCHANGED converterVars

\* FigmaFileGenerator.generateSingleFigmaFile(batchDialogues)
GenerateSingleFigmaFile ==
    /\ pc = "layout"
    /\ \E b \in CallBatches, now \in Clock :
            figma' = [by |-> "generateSingleFigmaFile", batchDialogues |-> b,
                      returned |->
                          GenerateSingleFigmaFileOp(b, thisTotalDialogues, now)]
    /\ UNCHANGED <<text, lines, pc, idx, batch, thisTotalDialogues>>
    /\ UNCHANGED parserVars
    /\ UNCHANGED validatorVars
    /\ UNCHANGED batchVars
    /\ UNCHANGED gptVars
    /\ UNCHANGED converterVars

\* FigmaFileGenerator.generateSingleFigmaFileString(batchDialogues)
GenerateSingleFigmaFileString ==
    /\ pc = "layout"
    /\ \E b \in CallBatches, now \in Clock :
          LET call == GenerateSingleFigmaFileStringOp(b, now)
          IN  /\ thisTotalDialogues' = call.thisTotalDialogues
              /\ figma' = [by |-> "generateSingleFigmaFileString",
                           batchDialogues |-> b, returned |-> call.returned]
    /\ UNCHANGED <<text, lines, pc, idx, batch>>
    /\ UNCHANGED parserVars
    /\ UNCHANGED validatorVars
    /\ UNCHANGED batchVars
    /\ UNCHANGED gptVars
    /\ UNCHANGED converterVars

NextLayout ==
    \/ CreateFigmaDocumentStructure
    \/ GenerateSingleFigmaFile
    \/ GenerateSingleFigmaFileString

SpecLayout == InitLayout /\ [][NextLayout]_vars

-----------------------------------------------------------------------------
(* What the claims speak of, read off the input text alone.                *)

\* the filtered lines of the input, trimmed
InputLines == [k \in 1..Len(lines) |-> Trim(lines[k])]

\* the position of the first colon of a trimmed line that has one
FirstColon(t) == CHOOSE k \in 1..Len(t) : t[k] = ":" /\ \A j \in 1..(k - 1) : t[j] # ":"

SpeakerOf(t) == Trim(SubSeq(t, 1, FirstColon(t) - 1))
TextOf(t) == Trim(SubSeq(t, FirstColon(t) + 1, Len(t)))

\* what follows the marker of a trimmed line, trimmed
Payload(t, prefix) == Trim(SubSeq(t, Len(prefix) + 1, Len(t)))

IsChoiceLine(t) == StartsWith(t, ChoicePrefix)
IsEndChoiceLine(t) == StartsWith(t, EndChoicePrefix)
IsOptionLine(t) == StartsWith(t, OptionPrefix)
IsTargetLine(t) == StartsWith(t, TargetPrefix)
IsNarrationLine(t) == StartsWith(t, NarrationPrefix)

\* a well-formed `Speaker: text` line
WellFormedSpeakerLine(t) ==
    /\ \E k \in 1..Len(t) : t[k] = ":"
    /\ ~IsChoiceLine(t) /\ ~IsNarrationLine(t) /\ ~StartsWith(t, DialoguePrefix)
    /\ SpeakerOf(t) # <<>>
    /\ TextOf(t) # <<>>

\* a well-formed line outside a choice block
WellFormedLine(t) ==
    \/ WellFormedSpeakerLine(t)
    \/ IsNarrationLine(t) /\ Payload(t, NarrationPrefix) # <<>>

\* the lines j+1 .. m-1 that satisfy P, in input order
Between(ls, j, m, P(_)) ==
    SelectSeq(SubSeq(ls, j + 1, m - 1), P)

\* line j opens a choice block that line m closes
IsBlock(ls, j, m) ==
    /\ j < m
    /\ IsChoiceLine(ls[j])
    /\ IsEndChoiceLine(ls[m])
    /\ \A k \in (j + 1)..(m - 1) : ~IsChoiceLine(ls[k]) /\ ~IsEndChoiceLine(ls[k])

QuotedAll(ss) == [k \in 1..Len(ss) |-> <<Quote>> \o ss[k] \o <<Quote>>]
Payloads(ls, prefix) == [k \in 1..Len(ls) |-> Payload(ls[k], prefix)]

ConvertDone == pc \in {"validate", "done"}

-----------------------------------------------------------------------------
(* The claims.                                                             *)

\* C1: parsing the two lines Holmes: "The game is afoot." / Watson: "Indeed."
\* yields exactly the two character nodes {Holmes, "The game is afoot."} and
\* {Watson, "Indeed."}, each text with exactly one pair of enclosing quotes.
C1_HolmesWatsonExample ==
    (ConvertDone /\ text = <<LHolmes, LWatson>>) =>
        dialogues =
            <<CharacterNode(<<"Holmes">>, <<Quote, "The game is afoot.", Quote>>),
              CharacterNode(<<"Watson">>, <<Quote, "Indeed.", Quote>>)>>

\* C2: a text of well-formed `Speaker: text` lines only yields one character
\* node per line, in line order, with the trimmed part before the first colon
\* as speaker and the trimmed rest wrapped in double quotes as text.
C2_OneCharacterNodePerLine ==
    (ConvertDone /\ \A k \in 1..Len(InputLines) : WellFormedSpeakerLine(InputLines[k])) =>
        dialogues =
            [k \in 1..Len(InputLines) |->
                CharacterNode(SpeakerOf(InputLines[k]),
                              <<Quote>> \o TextOf(InputLines[k]) \o <<Quote>>)]

C2_Witness ==
    /\ ConvertDone
    /\ Len(InputLines) >= 3
    /\ \A k \in 1..Len(InputLines) : WellFormedSpeakerLine(InputLines[k])
    /\ \E k \in 1..Len(text) : text[k] = LTwoColons
    /\ Len(dialogues) = 3

\* the turn of the parser's loop is at a line that closes a block opened at j
\* which holds only OPTION: and TARGET: lines, N >= 1 of each
ClosesEvenBlock(j) ==
    /\ pc = "convert"
    /\ idx <= Len(InputLines)
    /\ IsBlock(InputLines, j, idx)
    /\ \A k \in (j + 1)..(idx - 1) :
            IsOptionLine(InputLines[k]) \/ IsTargetLine(InputLines[k])
    /\ Len(Between(InputLines, j, idx, IsOptionLine)) >= 1
    /\ Len(Between(InputLines, j, idx, IsOptionLine))
            = Len(Between(InputLines, j, idx, IsTargetLine))

\* C3: a CHOICE: block closed by END_CHOICE that holds N >= 1 OPTION: lines
\* and N TARGET: lines, in any order, and no other line, emits exactly one
\* choice node, at its END_CHOICE: the options are the option texts in input
\* order, each in double quotes, the targetSequences the target texts in
\* input order, unquoted; the lines inside the block emit nothing.
C3_EvenBlockEmitsOneChoice ==
    [][ /\ \A j \in 1..Len(InputLines) :
              ClosesEvenBlock(j) =>
                  /\ Len(dialogues') = Len(dialogues) + 1
                  /\ dialogues'[Len(dialogues')].type = "choice"
                  /\ dialogues'[Len(dialogues')].options =
                        QuotedAll(Payloads(Between(InputLines, j, idx, IsOptionLine),
                                           OptionPrefix))
                  /\ dialogues'[Len(dialogues')].targetSequences =
                        Payloads(Between(InputLines, j, idx, IsTargetLine),
                                 TargetPrefix)
                  /\ Len(dialogues'[Len(dialogues')].options)
                        = Len(dialogues'[Len(dialogues')].targetSequences)
                  /\ SubSeq(dialogues', 1, Len(dialogues)) = dialogues
        /\ (pc = "convert" /\ idx <= Len(InputLines) /\ inChoiceBlock
                /\ (IsOptionLine(InputLines[idx]) \/ IsTargetLine(InputLines[idx])))
              => dialogues' = dialogues
      ]_vars

\* a block of two options and two targets, interleaved, has been closed
C3_Witness ==
    /\ pc = "convert"
    /\ idx > 1
    /\ \E j \in 1..Len(InputLines) :
          /\ IsBlock(InputLines, j, idx - 1)
          /\ SubSeq(text, j + 1, idx - 2) = <<LOptionYes, LTargetA, LOptionNo, LTargetB>>
    /\ dialogues # <<>>
    /\ dialogues[Len(dialogues)].type = "choice"
    /\ Len(dialogues[Len(dialogues)].options) = 2
    /\ Len(dialogues[Len(dialogues)].targetSequences) = 2

\* the turn of the parser's loop is at a line that closes a block opened at j
\* which holds no OPTION: line
ClosesOptionlessBlock(j) ==
    /\ pc = "convert"
    /\ idx <= Len(InputLines)
    /\ IsBlock(InputLines, j, idx)
    /\ Len(Between(InputLines, j, idx, IsOptionLine)) = 0

\* C4: a CHOICE: block closed by END_CHOICE that holds no OPTION: line emits
\* no choice node, whatever else it holds, and leaves the parser Idle: not in
\* a choice block and with no open speaker.
C4_OptionlessBlockDropped ==
    [][ \A j \in 1..Len(InputLines) :
            ClosesOptionlessBlock(j) =>
                /\ dialogues' = dialogues
                /\ ~inChoiceBlock'
                /\ currentChoice' = NullChoice
                /\ currentSpeaker' = <<>>
                /\ currentText' = <<>>
      ]_vars

\* the text holds exactly one choice block, from line j to line m, with no
\* OPTION: line, and outside it only well-formed lines
OneOptionlessBlock(ls, j, m) ==
    /\ IsBlock(ls, j, m)
    /\ Len(Between(ls, j, m, IsOptionLine)) = 0
    /\ \A k \in 1..Len(ls) : (k < j \/ k > m) => WellFormedLine(ls[k])

Messages == [k \in 1..Len(errors) |-> errors[k].msg]

\* C5 as claimed: for a text with exactly one CHOICE: ... END_CHOICE block
\* that has no OPTION: line, and otherwise only well-formed lines,
\* validateDialogueText returns exactly one diagnostic, the one that asks for
\* at least one option.
C5_ExactlyOneDiagnostic ==
    \A j, m \in 1..Len(InputLines) :
        (pc = "done" /\ OneOptionlessBlock(InputLines, j, m)) =>
            Messages = <<NoOptionMsg>>

\* C5 as amended: the first diagnostic is the one that asks for at least one
\* option; it is the only one if the block holds a TARGET: line, and is
\* followed by the one that asks for at least one target sequence, and no
\* other, if the block holds none.
C5_OptionThenTargetDiagnostic ==
    \A j, m \in 1..Len(InputLines) :
        (pc = "done" /\ OneOptionlessBlock(InputLines, j, m)) =>
            Messages =
                IF Len(Between(InputLines, j, m, IsTargetLine)) > 0
                THEN <<NoOptionMsg>>
                ELSE <<NoOptionMsg, NoTargetMsg>>

\* a block with neither option nor target between two well-formed lines, and
\* a block with a target only, have been validated
C5_Witness ==
    /\ pc = "done"
    /\ \E j, m \in 1..Len(InputLines) :
          /\ OneOptionlessBlock(InputLines, j, m)
          /\ Len(Between(InputLines, j, m, IsTargetLine)) = 0
          /\ j > 1
    /\ Len(errors) = 2

\* C6: the nodes are in the order of the lines that opened them.
C6_EmissionOrder ==
    \A a, b \in 1..Len(dialogues) : a < b => origin[a] < origin[b]

\* C7: no emitted node has an empty speaker or an empty text.
C7_NoEmptyPayload ==
    \A k \in 1..Len(dialogues) :
        /\ "speaker" \in DOMAIN dialogues[k] => dialogues[k].speaker # <<>>
        /\ "text" \in DOMAIN dialogues[k] => dialogues[k].text # <<>>

\* the line that closes the block opened at line n
CloseOf(ls, n) == Min({m \in (n + 1)..Len(ls) : IsEndChoiceLine(ls[m])})

\* the option payloads of the block opened at line n, in input order
OptionsOf(ls, n) ==
    Payloads(Between(ls, n, CloseOf(ls, n), IsOptionLine), OptionPrefix)

\* t is payload, possibly continued, inside one added pair of double quotes
HasAddedQuotes(t, payload) ==
    /\ Len(t) >= Len(payload) + 2
    /\ t[1] = Quote
    /\ t[Len(t)] = Quote
    /\ SubSeq(t, 2, Len(payload) + 1) = payload

\* what C8 says of every node but the options of a choice
PayloadsAsWritten(d, t) ==
    /\ d.type = "narration" => d.text = Payload(t, NarrationPrefix)
    /\ d.type = "choice" => d.question = Payload(t, ChoicePrefix)
    /\ d.type = "character" => HasAddedQuotes(d.text, TextOf(t))

\* C8 as claimed: narration text, choice question and choice options are the
\* trimmed payload as written, with no quotes added; only character text gets
\* an added pair of double quotes.
C8_OnlyCharacterTextQuoted ==
    \A k \in 1..Len(dialogues) :
        /\ PayloadsAsWritten(dialogues[k], InputLines[origin[k]])
        /\ dialogues[k].type = "choice" =>
                dialogues[k].options = OptionsOf(InputLines, origin[k])

\* C8 as amended: narration text and choice question are the trimmed payload
\* as written, with no quotes added; character text and every choice option
\* get an added pair of double quotes.
C8_CharacterTextAndOptionsQuoted ==
    \A k \in 1..Len(dialogues) :
        /\ PayloadsAsWritten(dialogues[k], InputLines[origin[k]])
        /\ dialogues[k].type = "choice" =>
                dialogues[k].options = QuotedAll(OptionsOf(InputLines, origin[k]))

\* a narration node and a choice node with a question and two options
C8_Witness ==
    /\ ConvertDone
    /\ Len(dialogues) = 2
    /\ dialogues[1].type = "narration"
    /\ dialogues[1].text = <<"The fog rolled in.">>
    /\ dialogues[2].type = "choice"
    /\ dialogues[2].question = <<"Proceed?">>
    /\ dialogues[2].options = <<<<Quote, "Yes", Quote>>, <<Quote, "No", Quote>>>>

\* the choice node d, opened by the trimmed line t, has a question key
\* exactly if the line gave a question
QuestionIffSupplied(d, t) ==
    d.type = "choice" => ("question" \in DOMAIN d <=> Payload(t, ChoicePrefix) # <<>>)

\* C9: a choice node has a question field exactly if its CHOICE: line gave a
\* non-empty question, and so has the choice in the JSON of
\* createExportStructure and of generateZipFileStructure.
C9_QuestionOnlyWhenSupplied ==
    /\ pc \in {"export", "zip", "done"} =>
          \A k \in 1..Len(document.dialogues) :
              QuestionIffSupplied(document.dialogues[k], InputLines[origin[k]])
    /\ pc \in {"zip", "done"} =>
          \A k \in 1..Len(exported.dialogues) :
              QuestionIffSupplied(exported.dialogues[k], InputLines[origin[k]])
    /\ pc = "done" =>
          \A f \in DOMAIN structure :
              structure[f] # NullFile =>
                  \A k \in 1..Len(structure[f].dialogues) :
                      QuestionIffSupplied(structure[f].dialogues[k],
                                          InputLines[origin[k]])

\* the scene number of the metadata: at least two characters, zeros in front
TwoDigits(scene) ==
    IF Len(scene) = 0 THEN <<"0", "0">>
    ELSE IF Len(scene) = 1 THEN <<"0">> \o scene
    ELSE scene

\* C10: the metadata of createBatchDialogueData(text, scene, sequence, title)
\* has scene 'SCENE_' + the scene padded with '0' to two characters, sequence
\* 'SEQUENCE_' + the sequence as given, and the title given or, for an empty
\* title, 'Dialogue {scene}-{sequence}'; scene '2', sequence '05A', title ''
\* give SCENE_02, SEQUENCE_05A, 'Dialogue 2-05A'.
C10_BatchMetadata ==
    pc \in {"export", "zip", "done"} =>
        /\ document.metadata.scene = <<"SCENE_">> \o TwoDigits(args.scene)
        /\ document.metadata.sequence = <<"SEQUENCE_">> \o args.sequence
        /\ document.metadata.title =
              IF args.title = <<>>
              THEN <<"Dialogue", " ">> \o args.scene \o <<"-">> \o args.sequence
              ELSE args.title
        /\ (args = [scene |-> <<"2">>, sequence |-> <<"0", "5", "A">>,
                    title |-> <<>>]) =>
              /\ document.metadata.scene = <<"SCENE_", "0", "2">>
              /\ document.metadata.sequence = <<"SEQUENCE_", "0", "5", "A">>
              /\ document.metadata.title =
                    <<"Dialogue", " ", "2", "-", "0", "5", "A">>

C10_Witness ==
    /\ pc = "export"
    /\ args = [scene |-> <<"2">>, sequence |-> <<"0", "5", "A">>, title |-> <<>>]
    /\ document.metadata.title = <<"Dialogue", " ", "2", "-", "0", "5", "A">>


\* the position in the raw text, counting every physical line from 1, of the
\* k-th line that is not blank
RawPosition(t, k) ==
    CHOOSE p \in 1..Len(t) :
        /\ Trim(t[p]) # <<>>
        /\ Cardinality({q \in 1..p : Trim(t[q]) # <<>>}) = k

\* C11: every diagnostic with a line number that validateDialogueText adds
\* while it looks at a line carries the 1-indexed position of that line in the
\* raw text, blank lines before it counted.
C11_RawLineNumbers ==
    [][ (pc = "validate" /\ idx <= Len(lines)) =>
            \A k \in (Len(errors) + 1)..Len(errors') :
                errors'[k].line = RawPosition(text, idx)
      ]_vars

\* a line of the text is a CHOICE: line, a NARRATION: line or a character line
RecognisedLine(t) ==
    \/ IsChoiceLine(t)
    \/ IsNarrationLine(t)
    \/ (\E k \in 1..Len(t) : t[k] = ":") /\ ~StartsWith(t, DialoguePrefix)

HasRecognisedLine == \E p \in 1..Len(text) : RecognisedLine(Trim(text[p]))
AllBlank == \A p \in 1..Len(text) : Trim(text[p]) = <<>>

\* how often validateDialogueText returned the message
Occurrences(msg) == Cardinality({k \in 1..Len(errors) : errors[k].msg = msg})

\* C12 as claimed: the result holds 'No valid dialogue found' exactly once if
\* the text has no CHOICE: line, no NARRATION: line and no character line,
\* empty and all-blank text included, and not at all if it has such a line.
C12_NoValidDialogueOnce ==
    pc = "done" =>
        Occurrences(NoValidDialogueMsg) = IF HasRecognisedLine THEN 0 ELSE 1

\* C12 as amended: for an empty or all-blank text the result is the single
\* diagnostic 'No dialogue text provided'; for any other text it holds
\* 'No valid dialogue found' exactly once, as its last diagnostic, if the text
\* has no CHOICE: line, no NARRATION: line and no character line, and not at
\* all if it has such a line.
C12_NoValidDialogueUnlessBlank ==
    pc = "done" =>
        IF AllBlank
        THEN errors = <<TextError(NoTextMsg)>>
        ELSE /\ Occurrences(NoValidDialogueMsg) =
                    IF HasRecognisedLine THEN 0 ELSE 1
             /\ ~HasRecognisedLine =>
                    errors[Len(errors)] = TextError(NoValidDialogueMsg)

\* a text of blank lines and lines that are no dialogue has been validated
C12_Witness ==
    /\ pc = "done"
    /\ ~AllBlank
    /\ ~HasRecognisedLine
    /\ Len(text) > Len(lines)
    /\ Occurrences(NoValidDialogueMsg) = 1


-----------------------------------------------------------------------------
(* The layout claims, read off the batch handed to the call and the tree   *)
(* the call returned.                                                      *)

ByApi == "by" \in DOMAIN figma /\ figma.by = "createFigmaDocumentStructure"
ByGenerator ==
    "by" \in DOMAIN figma
        /\ figma.by \in {"generateSingleFigmaFile", "generateSingleFigmaFileString"}

\* the DOCUMENT node of a returned value, and its page
TreeOf(f) ==
    IF f.by = "generateSingleFigmaFileString" THEN f.returned[1].json.document
    ELSE f.returned.document
PageOf(f) == TreeOf(f).children[1]

\* the children of the page between the master header and the master footer
SceneFramesOf(page) == SubSeq(page.children, 2, Len(page.children) - 1)

\* the distinct values of a sequence in the order they first occur
RECURSIVE FirstSeen(_)
FirstSeen(s) ==
    IF s = <<>> THEN <<>>
    ELSE LET r == FirstSeen(SubSeq(s, 1, Len(s) - 1))
             x == s[Len(s)]
         IN  IF \E i \in 1..Len(r) : r[i] = x THEN r ELSE Append(r, x)

ScenesIn(b) == FirstSeen([i \in 1..Len(b) |-> b[i].metadata.scene])
DocsOfScene(b, scene) == SelectSeq(b, LAMBDA d : d.metadata.scene = scene)
SequencesIn(b, scene) ==
    LET ds == DocsOfScene(b, scene)
    IN  FirstSeen([i \in 1..Len(ds) |-> ds[i].metadata.sequence])
DocsOfPair(b, scene, sequence) ==
    SelectSeq(b, LAMBDA d : d.metadata.scene = scene /\ d.metadata.sequence = sequence)

RECURSIVE SumOfCounts(_)
SumOfCounts(docs) ==
    IF docs = <<>> THEN 0 ELSE Len(docs[1].dialogues) + SumOfCounts(Tail(docs))

RECURSIVE NodesOf(_)
NodesOf(docs) ==
    IF docs = <<>> THEN <<>> ELSE docs[1].dialogues \o NodesOf(Tail(docs))

\* the kind of a node
KindOf(d) ==
    IF "type" \in DOMAIN d /\ d.type \in {"character", "narration", "choice"}
    THEN d.type ELSE "unknown"

IsText(n) == n.type = "TEXT"

\* the item frame renders the node: its text children, in order, for the kind
Renders(frame, d) ==
    LET c == frame.children
    IN  /\ frame.type = "FRAME"
        /\ \A i \in 1..Len(c) : IsText(c[i])
        /\ IF KindOf(d) = "character"
              THEN /\ Len(c) = 2
                   /\ c[1].characters = d.speaker
                   /\ c[2].characters = d.text
           ELSE IF KindOf(d) = "narration"
              THEN /\ Len(c) = 1
                   /\ c[1].characters = d.text
                   /\ "fontStyle" \in DOMAIN c[1].style
                   /\ c[1].style.fontStyle = "italic"
           ELSE IF KindOf(d) = "choice"
              THEN /\ Len(c) = 1 + Len(d.options)
                   /\ c[1].characters = d.question
                   /\ \A o \in 1..Len(d.options) :
                          c[o + 1].characters = <<Bullet, " ">> \o d.options[o]
           ELSE /\ Len(c) = 1
                /\ c[1].characters = JsonStringify(d)

\* the sequence frames of the i-th scene frame and the items of a sequence
\* frame: the children after the header
SequenceFramesOf(sceneFrame) == Tail(sceneFrame.children)
ItemsOf(sequenceFrame) == Tail(sequenceFrame.children)
TitleOf(sequenceFrame) == sequenceFrame.children[1].children[1].characters

RECURSIVE SumOfHeights(_)
SumOfHeights(frames) ==
    IF frames = <<>> THEN 0
    ELSE frames[1].absoluteBoundingBox.height + SumOfHeights(Tail(frames))

\* the spacing of n scenes: 100 after each scene (line 272) or between two
\* scenes, with or without the 20 between the header and the first scene
\* (line 237)
SceneSpacings(n) ==
    {100 * n, 100 * n + 20}
        \cup (IF n > 0 THEN {100 * (n - 1), 100 * (n - 1) + 20} ELSE {})

\* C14: the height of the page of createFigmaDocumentStructure is the larger
\* of 1200 and the sum of the master header's height, the heights of the
\* scene frames as the tree carries them, the spacing between the scenes and
\* the master footer's height, whichever way the spacing is counted.
C14_PageHeightIsSum ==
    ByApi =>
        LET page == PageOf(figma)
            header == page.children[1]
            footer == page.children[Len(page.children)]
            sceneFrames == SceneFramesOf(page)
        IN  \E spacing \in SceneSpacings(Len(sceneFrames)) :
                page.absoluteBoundingBox.height =
                    Max({1200,
                         header.absoluteBoundingBox.height
                            + SumOfHeights(sceneFrames) + spacing
                            + footer.absoluteBoundingBox.height})

\* every item frame of the layout with the node it renders
ItemsWithNodes ==
    LET b == figma.batchDialogues
        scenes == ScenesIn(b)
        sceneFrames == SceneFramesOf(PageOf(figma))
    IN  UNION { UNION {
            LET nodes == NodesOf(DocsOfPair(b, scenes[i], SequencesIn(b, scenes[i])[j]))
                items == ItemsOf(SequenceFramesOf(sceneFrames[i])[j])
            IN  { [frame |-> items[k], node |-> nodes[k]] : k \in 1..Len(nodes) }
            : j \in 1..Len(SequencesIn(b, scenes[i])) }
            : i \in 1..Len(scenes) }

\* C15: two item frames of the layout of createFigmaDocumentStructure whose
\* nodes are of the same kind have the same width and the same height.
C15_SizeByKindOnly ==
    ByApi =>
        \A p, q \in ItemsWithNodes :
            KindOf(p.node) = KindOf(q.node) =>
                /\ p.frame.absoluteBoundingBox.width =
                        q.frame.absoluteBoundingBox.width
                /\ p.frame.absoluteBoundingBox.height =
                        q.frame.absoluteBoundingBox.height

\* C16: createDialogueItem chooses the sub-tree by the node's type alone: two
\* text children (speaker, text) for a character node, one italic text child
\* for a narration node, the question and one bullet text child per option,
\* in option order, for a choice node whatever the number of its targets, and
\* one text child with the dump of the node for any other or missing type.
C16_SubTreeByType ==
    ByApi => \A p \in ItemsWithNodes : Renders(p.frame, p.node)

\* a layout with a character, a narration, a choice of two options and one
\* target, a node of another type and a node of no type
C16_Witness ==
    /\ ByApi
    /\ figma.batchDialogues = <<DBranch, DFinale>>
    /\ \E p \in ItemsWithNodes : p.node = NUntyped /\ Len(p.frame.children) = 1
    /\ \E p \in ItemsWithNodes : p.node = NAction /\ Len(p.frame.children) = 1
    /\ \E p \in ItemsWithNodes : p.node = NProceed /\ Len(p.frame.children) = 3

\* a node without its text content
RECURSIVE Skeleton(_)
Skeleton(n) ==
    [id |-> n.id, name |-> n.name, type |-> n.type,
     absoluteBoundingBox |->
        IF "absoluteBoundingBox" \in DOMAIN n THEN <<n.absoluteBoundingBox>>
        ELSE <<>>,
     children |->
        IF "children" \in DOMAIN n
        THEN [i \in 1..Len(n.children) |-> Skeleton(n.children[i])]
        ELSE <<>>]

\* generateSingleFigmaFileString returns the text of the file that
\* generateSingleFigmaFile builds
EngineOf(f) ==
    IF f.by = "createFigmaDocumentStructure" THEN "FigmaApiService"
    ELSE "FigmaFileGenerator"

\* C17: a call of the layout engine on the document list of the call before
\* it returns a tree of the same structure (nodes, ids, names, types,
\* children) with the same bounding box at every node, whatever the time of
\* the two calls and the calls made before them.
C17_SameInputSameLayout ==
    [][ ("by" \in DOMAIN figma
            /\ EngineOf(figma') = EngineOf(figma)
            /\ figma'.batchDialogues = figma.batchDialogues)
        => Skeleton(TreeOf(figma')) = Skeleton(TreeOf(figma))
      ]_vars

\* generateSingleFigmaFile has been called on the batch after
\* generateSingleFigmaFileString was called on it
C17_Witness ==
    /\ "by" \in DOMAIN figma
    /\ figma.by = "generateSingleFigmaFile"
    /\ figma.batchDialogues = batch
    /\ Len(batch) = MaxDocs
    /\ thisTotalDialogues = <<SumOfCounts(batch)>>

\* the text of the statistics line of the master header
HeaderCountOf(f) == PageOf(f).children[1].children[3].characters

\* C18: the master header of the layout that generateSingleFigmaFile or
\* generateSingleFigmaFileString returns shows as 'total dialogues' the number
\* of dialogue nodes of the batch of that call.
C18_HeaderCountsOwnBatch ==
    ByGenerator =>
        HeaderCountOf(figma) =
            NumStr(Len(ScenesIn(figma.batchDialogues)))
                \o <<" scenes ", Bullet, " ">>
                \o NumStr(SumOfCounts(figma.batchDialogues))
                \o <<" total dialogues">>


-----------------------------------------------------------------------------
(* The parser inside a choice block and after a narration line.            *)

\* line k of the input lies inside a choice block: a CHOICE: line precedes it
\* with no END_CHOICE line between the two
InsideBlock(k) ==
    \E j \in 1..(k - 1) :
        /\ IsChoiceLine(InputLines[j])
        /\ \A m \in (j + 1)..(k - 1) : ~IsEndChoiceLine(InputLines[m])

\* the turn of convertTextToDialogues for line idx is about to be taken
AtLine == pc = "convert" /\ idx <= Len(lines)

HasColon(t) == \E k \in 1..Len(t) : t[k] = ":"

\* C19: the turn for a line inside a choice block that starts with none of
\* OPTION:, TARGET:, END_CHOICE emits no node, opens no speaker and leaves the
\* open block with its question, options and targets as they were.
C19_OtherLinesInBlockSkipped ==
    [][ (AtLine /\ InsideBlock(idx)
            /\ ~IsOptionLine(InputLines[idx])
            /\ ~IsTargetLine(InputLines[idx])
            /\ ~IsEndChoiceLine(InputLines[idx]))
        => /\ dialogues' = dialogues
           /\ currentSpeaker' = currentSpeaker
           /\ currentText' = currentText
           /\ currentChoice' = currentChoice
           /\ inChoiceBlock' = inChoiceBlock
      ]_vars

\* C20: the turn for a NARRATION: line outside a choice block appends the
\* narration node as the last node, after the nodes emitted so far and the
\* pending character line, and leaves no speaker open; the turn for a line
\* without colon and without marker that follows such a NARRATION: line
\* changes neither the nodes nor any speaker's text.
C20_IdleAfterNarration ==
    [][ /\ (AtLine /\ ~InsideBlock(idx) /\ IsNarrationLine(InputLines[idx]))
            => /\ currentSpeaker' = <<>>
               /\ currentText' = <<>>
               /\ ~inChoiceBlock'
               /\ Len(dialogues') > Len(dialogues)
               /\ SubSeq(dialogues', 1, Len(dialogues)) = dialogues
               /\ dialogues'[Len(dialogues')] =
                      NarrationNode(Payload(InputLines[idx], NarrationPrefix))
        /\ (AtLine /\ idx > 1 /\ ~InsideBlock(idx - 1)
                /\ IsNarrationLine(InputLines[idx - 1])
                /\ ~HasColon(InputLines[idx])
                /\ ~IsEndChoiceLine(InputLines[idx]))
            => /\ dialogues' = dialogues
               /\ currentSpeaker' = <<>>
               /\ currentText' = <<>>
      ]_vars


-----------------------------------------------------------------------------
(* The validator inside a choice block, and validator against parser.      *)

\* the turn of validateDialogueText for line idx is about to be taken
AtValidatedLine == pc = "validate" /\ idx <= Len(lines)

\* line k lies inside a choice block and starts with none of CHOICE:,
\* OPTION:, TARGET:, END_CHOICE
OtherLineInBlock(k) ==
    /\ InsideBlock(k)
    /\ ~IsChoiceLine(InputLines[k])
    /\ ~IsOptionLine(InputLines[k])
    /\ ~IsTargetLine(InputLines[k])
    /\ ~IsEndChoiceLine(InputLines[k])

\* C21: the turn of validateDialogueText for a line inside a choice block
\* that starts with none of OPTION:, TARGET:, END_CHOICE adds a diagnostic.
C21_OtherLinesInBlockReported ==
    [][ (AtValidatedLine /\ OtherLineInBlock(idx))
            => Len(errors') > Len(errors)
      ]_vars


\* the lines without the k-th
WithoutLine(ls, k) == SubSeq(ls, 1, k - 1) \o SubSeq(ls, k + 1, Len(ls))

\* C22: every line that validateDialogueText reports with 'Invalid format' is
\* ignored by convertTextToDialogues: the text without that line is converted
\* to the same nodes.
C22_InvalidLinesIgnored ==
    pc = "done" =>
        \A k \in 1..Len(errors) :
            errors[k].msg = InvalidFormatMsg =>
                ConvertTextToDialogues(WithoutLine(lines, errors[k].line)).dialogues
                    = dialogues


-----------------------------------------------------------------------------
(* The end of convertTextToDialogues.                                      *)

\* the forEach of convertTextToDialogues is over and its end is about to run
AtEndOfInput == pc = "convert" /\ idx > Len(lines)

\* line j is a CHOICE: line with no END_CHOICE line after it
OpensUnclosedBlock(j) ==
    /\ IsChoiceLine(InputLines[j])
    /\ \A m \in (j + 1)..Len(lines) : ~IsEndChoiceLine(InputLines[m])

\* C23: the end of convertTextToDialogues adds the character node of the open
\* speaker and its text as the last node if there is one, and nothing else;
\* no choice node comes from a CHOICE: line whose block END_CHOICE never
\* closed, whatever options and targets the block collected.
C23_EndOfInputFlush ==
    [][ AtEndOfInput =>
            /\ dialogues' =
                   IF currentSpeaker # <<>> /\ currentText # <<>>
                   THEN Append(dialogues,
                               CharacterNode(currentSpeaker,
                                             Quoted(Trim(currentText))))
                   ELSE dialogues
            /\ \A j \in 1..Len(lines) :
                   OpensUnclosedBlock(j) =>
                       \A k \in 1..Len(dialogues') :
                           ~(dialogues'[k].type = "choice" /\ origin'[k] = j)
      ]_vars

\* a text has been converted that ends inside a block with an option, on a
\* character line of that block: the character node is the last node
C23_Witness ==
    /\ ConvertDone
    /\ inChoiceBlock
    /\ Len(currentChoice.options) > 0
    /\ Len(dialogues) > 0
    /\ dialogues[Len(dialogues)].type = "character"
    /\ origin[Len(dialogues)] = Len(lines)
    /\ \A k \in 1..Len(dialogues) : dialogues[k].type # "choice"


-----------------------------------------------------------------------------
(* GPTConverterService.convertToJSON (src/unnamed/part_002 8-150) and the  *)
(* convertTextToJSON of the component (DialogueConverter.js 28-56).  The   *)
(* answer of the API is an input: response is JSON.parse(cleanedJson), or  *)
(* ApiFailure when fetch, the access to choices[0] or JSON.parse throws.   *)
(* An item or an answer lacks a key where the value is no array.           *)

\* s.replace(/\\"/g, '"')
RECURSIVE Unescape(_)
Unescape(s) ==
    IF s = <<>> THEN <<>>
    ELSE IF Len(s) >= 2 /\ s[1] = "\\" /\ s[2] = Quote
        THEN <<Quote>> \o Unescape(SubSeq(s, 3, Len(s)))
    ELSE <<s[1]>> \o Unescape(Tail(s))

Capitals ==
    <<"A", "B", "C", "D", "E", "F", "G", "H", "I", "J", "K", "L", "M", "N",
      "O", "P", "Q", "R", "S", "T", "U", "V", "W", "X", "Y", "Z">>

\* String.fromCharCode(code) for the codes of the capital letters
FromCharCode(code) == Capitals[code - 64]

\* the atoms made of characters of [A-Z0-9_] only
BaseAtoms ==
    {Capitals[i] : i \in DOMAIN Capitals} \cup {Digit(n) : n \in 0..9}
        \cup {"_", "SEQUENCE_", "SCENE_"}

\* currentSequence.replace(/[^A-Z0-9_]/g, "")
BaseSequence(currentSequence) ==
    SelectSeq(currentSequence, LAMBDA a : a \in BaseAtoms)

\* Array.from({length: optionCount}, (_, i) => String.fromCharCode(65 + i)),
\* then suffixes.map((suffix) => `${currentScene}/${baseSequence}${suffix}`)
TargetSequences(optionCount, currentScene, currentSequence) ==
    LET suffixes == [i \in 1..optionCount |-> FromCharCode(65 + (i - 1))]
    IN  [i \in 1..optionCount |->
            currentScene \o <<"/">> \o BaseSequence(currentSequence)
                \o <<suffixes[i]>>]

\* item[key] = value
SetField(item, key, value) ==
    [k \in DOMAIN item \cup {key} |-> IF k = key THEN value ELSE item[k]]

IsChoiceItem(item) == "type" \in DOMAIN item /\ item.type = "choice"

\* the callback of the first forEach, lines 116-136
CleanItem(item, currentScene, currentSequence) ==
    LET a == IF "text" \in DOMAIN item /\ item.text # <<>>
             THEN [item EXCEPT !.text = Unescape(@)] ELSE item
        b == IF "question" \in DOMAIN a /\ a.question # <<>>
             THEN [a EXCEPT !.question = Unescape(@)] ELSE a
    IN  IF IsChoiceItem(b) /\ "options" \in DOMAIN b
        THEN SetField(b, "targetSequences",
                      TargetSequences(Len(b.options), currentScene,
                                      currentSequence))
        ELSE b

\* the callback of the second forEach, lines 139-143
DropStrayTargets(item) ==
    IF ~IsChoiceItem(item)
    THEN [k \in DOMAIN item \ {"targetSequences"} |-> item[k]]
    ELSE item

ApiFailure == [failure |-> TRUE]
Thrown(message) == [thrown |-> message]

\* convertToJSON(inputText, currentScene, currentSequence), lines 8-150
ConvertToJSONOp(response, currentScene, currentSequence) ==
    IF response = ApiFailure
        THEN Thrown("Failed to convert text to JSON")
    ELSE IF "dialogues" \notin DOMAIN response
        THEN [dialogues |-> <<>>]
    ELSE [response EXCEPT !.dialogues =
              [i \in 1..Len(@) |->
                  DropStrayTargets(CleanItem(@[i], currentScene,
                                             currentSequence))]]

\* {metadata, ...jsonResult}
Spread(metadata, jsonResult) ==
    [k \in {"metadata"} \cup DOMAIN jsonResult |->
        IF k \in DOMAIN jsonResult THEN jsonResult[k] ELSE metadata]

\* convertTextToJSON(text, scene, sequence, title), DialogueConverter.js
\* 28-56; now stands for new Date().toISOString()
ConvertTextToJSONOp(scene, sequence, title, response, now) ==
    LET currentScene == <<"SCENE_">> \o PadStart(scene, 2, "0")
        currentSequence == <<"SEQUENCE_">> \o sequence
        jsonResult == ConvertToJSONOp(response, currentScene, currentSequence)
    IN  IF "thrown" \in DOMAIN jsonResult
        THEN Thrown("Failed to convert text using GPT. Please check your input format.")
        ELSE Spread([scene |-> currentScene,
                     sequence |-> currentSequence,
                     title |-> IF title # <<>> THEN title
                               ELSE <<"Dialogue", " ">> \o scene \o <<"-">>
                                        \o sequence,
                     timestamp |-> now],
                    jsonResult)

-----------------------------------------------------------------------------
(* The answers of the API and the calls of convertTextToJSON.              *)

\* longest answer of the API, in items
MaxItems == 2

GNarration == [type |-> "narration", text |-> <<"The fog rolled in.">>]
GStray ==
    [type |-> "narration", text |-> <<"Rain.">>,
     targetSequences |-> << <<"SCENE_", "0", "1", "/", "SEQUENCE_", "0", "1", "A">> >>]
GHolmes ==
    [type |-> "character", speaker |-> <<"Holmes">>,
     text |-> <<"He said ", "\\", Quote, "afoot", "\\", Quote>>]
GProceed ==
    [type |-> "choice", question |-> <<"Proceed?">>,
     options |-> << <<"Yes">>, <<"No">> >>,
     targetSequences |-> << <<"SCENE_", "0", "1", "/", "SEQUENCE_", "0", "1", "A">> >>]
GStay ==
    [type |-> "choice",
     options |-> << <<"Stay">>, <<"Leave">>, <<"Wait">> >>]
GNoOptions == [type |-> "choice", question |-> <<"Proceed?">>]

Items == {GNarration, GStray, GHolmes, GProceed, GStay, GNoOptions}

Responses ==
    {[dialogues |-> ds] : ds \in SeqsOf(Items, 0, MaxItems)}
        \cup {[items |-> <<GNarration>>], ApiFailure}

SceneNumbers == {<<"1">>, <<"0", "2">>}
SequenceNumbers ==
    {<<"0", "1">>, <<"0", "5", "A">>, <<"6", ".", "1", ".", "1">>,
     <<"0", "5", "a">>}

Calls ==
    [scene : SceneNumbers, sequence : SequenceNumbers, title : Titles,
     response : Responses]

InitGpt ==
    /\ gptCall \in Calls
    /\ gptResult = NoValue
    /\ text = << <<>> >>
    /\ lines = <<>>
    /\ pc = "gpt"
    /\ args = NoValue
    /\ InitCommon
    /\ InitNoLayout
    /\ InitConverter

\* convertTextToJSON(text, scene, sequence, title)
ConvertTextToJSON ==
    /\ pc = "gpt"
    /\ \E now \in Clock :
            gptResult' = ConvertTextToJSONOp(gptCall.scene, gptCall.sequence,
                                             gptCall.title, gptCall.response,
                                             now)
    /\ pc' = "done"
    /\ UNCHANGED <<text, lines, idx, gptCall>>
    /\ UNCHANGED parserVars
    /\ UNCHANGED validatorVars
    /\ UNCHANGED batchVars
    /\ UNCHANGED layoutVars
    /\ UNCHANGED converterVars

NextGpt == ConvertTextToJSON

SpecGpt == InitGpt /\ [][NextGpt]_vars

-----------------------------------------------------------------------------
(* The targets convertTextToJSON gives to the choices.                     *)

\* the call returned a document
GptReturned == pc = "done" /\ "dialogues" \in DOMAIN gptResult

\* the currentScene and currentSequence of the call, as the caller built them
CallerScene == <<"SCENE_">> \o PadStart(gptCall.scene, 2, "0")
CallerSequence == <<"SEQUENCE_">> \o gptCall.sequence

\* C24: in the document convertTextToJSON returns, every choice item with k
\* options has exactly k targetSequences, the i-th being the caller's scene,
\* a slash, the caller's sequence identifier unchanged and the i-th capital
\* letter.
C24_TargetsKeepSequence ==
    GptReturned =>
        \A i \in 1..Len(gptResult.dialogues) :
            LET item == gptResult.dialogues[i]
            IN  (IsChoiceItem(item) /\ "options" \in DOMAIN item) =>
                    /\ "targetSequences" \in DOMAIN item
                    /\ Len(item.targetSequences) = Len(item.options)
                    /\ \A j \in 1..Len(item.options) :
                           item.targetSequences[j] =
                               CallerScene \o <<"/">> \o CallerSequence
                                   \o <<Capitals[j]>>


-----------------------------------------------------------------------------
(* The geometry of the layout of createFigmaDocumentStructure.             *)

BoxOf(n) == n.absoluteBoundingBox

\* the box lies inside the other box, edges included
Inside(inner, outer) ==
    /\ outer.x <= inner.x
    /\ outer.y <= inner.y
    /\ inner.x + inner.width <= outer.x + outer.width
    /\ inner.y + inner.height <= outer.y + outer.height

ChildrenOf(n) == IF "children" \in DOMAIN n THEN n.children ELSE <<>>

\* every child's box lies inside its parent's box, in the whole subtree
RECURSIVE Nested(_)
Nested(n) ==
    \A i \in 1..Len(ChildrenOf(n)) :
        /\ Inside(BoxOf(n.children[i]), BoxOf(n))
        /\ Nested(n.children[i])

\* C25: in the tree of createFigmaDocumentStructure, from every scene frame
\* downwards, the box of every child lies inside the box of its parent:
\* scene header and sequence frames inside the scene frame, sequence header
\* and items inside the sequence frame, text nodes inside their frame.
C25_ChildrenInsideParents ==
    ByApi =>
        \A s \in 1..Len(SceneFramesOf(PageOf(figma))) :
            Nested(SceneFramesOf(PageOf(figma))[s])


\* the sequence frames of the layout, scene by scene
AllSequenceFrames(page) ==
    LET scenes == SceneFramesOf(page)
    IN  UNION {{SequenceFramesOf(scenes[s])[q] :
                    q \in 1..Len(SequenceFramesOf(scenes[s]))} :
               s \in 1..Len(scenes)}

\* C26: in every sequence frame of createFigmaDocumentStructure each item
\* starts at or below the bottom edge of the item before it.
C26_ItemsDoNotOverlap ==
    ByApi =>
        \A f \in AllSequenceFrames(PageOf(figma)) :
            \A i \in 1..(Len(ItemsOf(f)) - 1) :
                BoxOf(ItemsOf(f)[i]).y + BoxOf(ItemsOf(f)[i]).height
                    <= BoxOf(ItemsOf(f)[i + 1]).y


-----------------------------------------------------------------------------
(* Batches of many short sequences of one scene, and the layout calls on   *)
(* them.                                                                   *)

\* most sequences of the scene
MaxSequences == 5

ShortDocument(i, node) ==
    Document(Scene01, <<"SEQUENCE_">> \o NumStr(i), <<"Part">>, <<node>>)

LongBatches ==
    UNION {{[i \in 1..k |-> ShortDocument(i, nodes[i])] :
                nodes \in [1..k -> {NHolmes, NFog}]} :
           k \in 0..MaxSequences}

InitLongLayout ==
    /\ batch \in LongBatches
    /\ thisTotalDialogues = <<>>
    /\ figma = NoValue
    /\ text = << <<>> >>
    /\ lines = <<>>
    /\ pc = "layout"
    /\ args = NoValue
    /\ InitCommon
    /\ InitNoGpt
    /\ InitConverter

SpecLongLayout == InitLongLayout /\ [][NextLayout]_vars

\* the master footer: the last child of the page
FooterOf(page) == page.children[Len(page.children)]

\* C27: in the layout of createFigmaDocumentStructure every scene frame lies
\* inside the box of the page and ends at or above the top edge of the master
\* footer.
C27_ScenesFitThePage ==
    ByApi =>
        LET page == PageOf(figma)
        IN  \A s \in 1..Len(SceneFramesOf(page)) :
                LET box == BoxOf(SceneFramesOf(page)[s])
                IN  /\ Inside(box, BoxOf(page))
                    /\ box.y + box.height <= BoxOf(FooterOf(page)).y


\* the ids of the nodes of a subtree, one for every node
RECURSIVE IdsOf(_)
IdsOf(n) ==
    LET c == ChildrenOf(n)
        RECURSIVE IdsUpTo(_)
        IdsUpTo(k) == IF k = 0 THEN <<>> ELSE IdsUpTo(k - 1) \o IdsOf(c[k])
    IN  <<n.id>> \o IdsUpTo(Len(c))

NoDuplicates(s) == \A i, j \in 1..Len(s) : s[i] = s[j] => i = j

\* C28: the ids of the nodes of the tree of createFigmaDocumentStructure are
\* pairwise distinct.
C28_DistinctIds ==
    ByApi => NoDuplicates(IdsOf(TreeOf(figma)))


-----------------------------------------------------------------------------
(* generateZipFileStructure and generateCompleteZipStructure               *)
(* (dialogueService.js 691-773) on the batch.                              *)

\* lines 752-773: the structure without Figma placeholders, and the single
\* Figma file of generateSingleFigmaFileString under its own key
GenerateCompleteZipStructureOp(batchDialogues, includeFigma, now) ==
    LET plain == GenerateZipFileStructureOp(batchDialogues, FALSE)
    IN  IF includeFigma
        THEN Put(plain, <<"Dialogues_with_Figma.json">>,
                 GenerateSingleFigmaFileStringOp(batchDialogues, now).returned)
        ELSE plain

InitZip ==
    /\ batch \in Batches
    /\ thisTotalDialogues = <<>>
    /\ figma = NoValue
    /\ text = << <<>> >>
    /\ lines = <<>>
    /\ pc = "zip of batch"
    /\ args = NoValue
    /\ InitCommon
    /\ InitNoGpt
    /\ InitConverter

\* DialogueService.generateZipFileStructure(batchDialogues, includeFigma)
GenerateZipFileStructureOfBatch ==
    /\ pc = "zip of batch"
    /\ \E includeFigma \in BOOLEAN :
            structure' = GenerateZipFileStructureOp(batch, includeFigma)
    /\ pc' = "done"
    /\ UNCHANGED <<text, lines, idx, args, document, exported>>
    /\ UNCHANGED parserVars
    /\ UNCHANGED validatorVars
    /\ UNCHANGED layoutVars
    /\ UNCHANGED gptVars
    /\ UNCHANGED converterVars

\* DialogueService.generateCompleteZipStructure(batchDialogues, includeFigma)
GenerateCompleteZipStructure ==
    /\ pc = "zip of batch"
    /\ \E includeFigma \in BOOLEAN, now \in Clock :
          /\ structure' =
                 GenerateCompleteZipStructureOp(batch, includeFigma, now)
          /\ thisTotalDialogues' =
                 IF includeFigma
                 THEN GenerateSingleFigmaFileStringOp(batch, now).thisTotalDialogues
                 ELSE thisTotalDialogues
    /\ pc' = "done"
    /\ UNCHANGED <<text, lines, idx, args, document, exported, batch, figma>>
    /\ UNCHANGED parserVars
    /\ UNCHANGED validatorVars
    /\ UNCHANGED gptVars
    /\ UNCHANGED converterVars

NextZip == GenerateZipFileStructureOfBatch \/ GenerateCompleteZipStructure

SpecZip == InitZip /\ [][NextZip]_vars

\* the paths of the structure that name a dialogue.json file
JsonPaths(struct) ==
    {path \in DOMAIN struct : path[Len(path)] = "dialogue.json"}

RECURSIVE SumOver(_, _)
SumOver(struct, paths) ==
    IF paths = {} THEN 0
    ELSE LET path == CHOOSE q \in paths : TRUE
         IN  Len(struct[path].dialogues) + SumOver(struct, paths \ {path})

\* C29: the dialogue.json entries of the structure hold as many dialogue
\* nodes in total as the documents of the batch.
C29_ZipHoldsEveryDialogue ==
    pc = "done" =>
        SumOver(structure, JsonPaths(structure)) = SumOfCounts(batch)


-----------------------------------------------------------------------------
(* The batch handlers of the DialogueConverter component                   *)
(* (DialogueConverter.js).  A handler that awaits convertTextToJSON runs   *)
(* up to the await in one step and is then pending with the values its     *)
(* closure holds; the step ConversionSettles is the answer of the API and  *)
(* the rest of that handler.  The handlers that change the scene, the      *)
(* sequence and the title of the form or the fields of the edit modal are  *)
(* not modelled.                                                           *)

\* most items ever added to the batch
MaxIds == 2

\* the variables of the services, which the component's handlers leave alone
serviceVars == <<text, lines, pc, idx, parserVars, validatorVars, batchVars,
                 layoutVars, gptVars>>

\* validateInput(), lines 58-77: the errors it sets and the value it returns
ValidateInputOp(t) ==
    IF Trim(t) = <<>>
        THEN [validationErrors |-> <<"Please enter dialogue text">>,
              isValid |-> FALSE]
    ELSE IF StrLen(Trim(t)) < 10
        THEN [validationErrors |->
                  <<"Text seems too short. Please provide more content.">>,
              isValid |-> FALSE]
    ELSE [validationErrors |-> <<>>, isValid |-> TRUE]

\* s.replace(a, ""), a one atom: the first occurrence is removed
RECURSIVE ReplaceFirst(_, _)
ReplaceFirst(s, a) ==
    IF s = <<>> THEN <<>>
    ELSE IF Head(s) = a THEN Tail(s)
    ELSE <<Head(s)>> \o ReplaceFirst(Tail(s), a)

\* the texts typed into the form
InputTexts ==
    {<<>>, <<"Hi">>, <<"Holmes", ":", " ", "The game is afoot.">>}

\* the answers of the API to the conversions of the handlers
HandlerResponses == {[dialogues |-> <<GHolmes>>], ApiFailure}

InitDialogueConverter ==
    /\ InitConverter
    /\ text = << <<>> >>
    /\ lines = <<>>
    /\ pc = "mounted"
    /\ args = NoValue
    /\ InitCommon
    /\ InitNoLayout
    /\ InitNoGpt

\* onChange of the text area, and the effect of lines 80-87
SetInputText ==
    /\ \E t \in InputTexts :
          /\ t # inputText
          /\ inputText' = t
          /\ IF Trim(t) # <<>>
             THEN /\ validationErrors' = ValidateInputOp(t).validationErrors
                  /\ isValid' = ValidateInputOp(t).isValid
             ELSE /\ validationErrors' = <<>>
                  /\ isValid' = FALSE
    /\ UNCHANGED <<sceneNumber, sequenceNumber, dialogueTitle, isProcessing,
                   uiBatchDialogues, editingItem, editedItems, pending, nextId>>
    /\ UNCHANGED serviceVars

\* handleAddToBatch up to its await, lines 189-201; the button is disabled
\* while isProcessing or for a blank text (line 624)
HandleAddToBatch ==
    /\ ~isProcessing
    /\ Trim(inputText) # <<>>
    /\ nextId <= MaxIds
    /\ validationErrors' = ValidateInputOp(inputText).validationErrors
    /\ isValid' = ValidateInputOp(inputText).isValid
    /\ IF ValidateInputOp(inputText).isValid
       THEN /\ isProcessing' = TRUE
            /\ pending' = [handler |-> "handleAddToBatch",
                           inputText |-> inputText,
                           scene |-> sceneNumber,
                           sequence |-> sequenceNumber,
                           title |-> dialogueTitle]
       ELSE UNCHANGED <<isProcessing, pending>>
    /\ UNCHANGED <<inputText, sceneNumber, sequenceNumber, dialogueTitle,
                   uiBatchDialogues, editingItem, editedItems, nextId>>
    /\ UNCHANGED serviceVars

\* handleEditBatchItem(item), lines 124-130
HandleEditBatchItem ==
    /\ \E i \in 1..Len(uiBatchDialogues) :
          LET item == uiBatchDialogues[i]
          IN  editingItem' =
                  [id |-> item.id, inputText |-> item.inputText,
                   metadata |-> item.metadata, dialogues |-> item.dialogues,
                   editedText |-> item.inputText,
                   editedMetadata |-> item.metadata]
    /\ UNCHANGED <<formVars, isProcessing, uiBatchDialogues, editedItems,
                   pending, nextId>>
    /\ UNCHANGED serviceVars

\* handleSaveEditedItem up to its await, lines 132-153; the button is
\* disabled while isProcessing (line 902)
HandleSaveEditedItem ==
    /\ editingItem # NoValue
    /\ ~isProcessing
    /\ isProcessing' = TRUE
    /\ pending' = [handler |-> "handleSaveEditedItem",
                   editingItem |-> editingItem,
                   inputText |-> editingItem.editedText,
                   scene |-> ReplaceFirst(editingItem.editedMetadata.scene,
                                          "SCENE_"),
                   sequence |-> ReplaceFirst(editingItem.editedMetadata.sequence,
                                             "SEQUENCE_"),
                   title |-> editingItem.editedMetadata.title]
    /\ UNCHANGED <<formVars, uiBatchDialogues, editingItem, editedItems, nextId>>
    /\ UNCHANGED serviceVars

\* handleCancelEdit, lines 185-187
HandleCancelEdit ==
    /\ editingItem # NoValue
    /\ editingItem' = NoValue
    /\ UNCHANGED <<formVars, isProcessing, uiBatchDialogues, editedItems,
                   pending, nextId>>
    /\ UNCHANGED serviceVars

\* handleRemoveFromBatch(id), lines 227-229
HandleRemoveFromBatch ==
    /\ \E i \in 1..Len(uiBatchDialogues) :
          uiBatchDialogues' =
              SelectSeq(uiBatchDialogues,
                        LAMBDA item : item.id # uiBatchDialogues[i].id)
    /\ UNCHANGED <<formVars, isProcessing, editingItem, editedItems, pending,
                   nextId>>
    /\ UNCHANGED serviceVars

\* the awaited convertTextToJSON returns or throws and the pending handler
\* runs to its end: lines 203-224 of handleAddToBatch, lines 155-182 of
\* handleSaveEditedItem
ConversionSettles ==
    /\ pending # NoValue
    /\ \E response \in HandlerResponses, now \in Clock :
          LET result == ConvertTextToJSONOp(pending.scene, pending.sequence,
                                            pending.title, response, now)
              saved == pending.editingItem
          IN  IF "thrown" \in DOMAIN result
              THEN UNCHANGED <<formVars, uiBatchDialogues, editingItem,
                               editedItems, nextId>>
              ELSE IF pending.handler = "handleAddToBatch"
              THEN /\ uiBatchDialogues' =
                          Append(uiBatchDialogues,
                                 [metadata |-> result.metadata,
                                  dialogues |-> result.dialogues,
                                  id |-> nextId,
                                  inputText |-> pending.inputText])
                   /\ nextId' = nextId + 1
                   /\ inputText' = <<>>
                   /\ dialogueTitle' = <<>>
                   /\ validationErrors' = <<>>
                   /\ isValid' = FALSE
                   /\ UNCHANGED <<sceneNumber, sequenceNumber, editingItem,
                                  editedItems>>
              ELSE /\ uiBatchDialogues' =
                          [i \in 1..Len(uiBatchDialogues) |->
                              IF uiBatchDialogues[i].id = saved.id
                              THEN [metadata |->
                                        [result.metadata EXCEPT
                                             !.title = saved.editedMetadata.title],
                                    dialogues |-> result.dialogues,
                                    id |-> saved.id,
                                    inputText |-> saved.editedText]
                              ELSE uiBatchDialogues[i]]
                   /\ editedItems' = editedItems \cup {saved.id}
                   /\ editingItem' = NoValue
                   /\ UNCHANGED <<formVars, nextId>>
    /\ isProcessing' = FALSE
    /\ pending' = NoValue
    /\ UNCHANGED serviceVars
NextDialogueConverter ==
    \/ SetInputText
    \/ HandleAddToBatch
    \/ HandleEditBatchItem
    \/ HandleSaveEditedItem
    \/ HandleCancelEdit
    \/ HandleRemoveFromBatch
    \/ ConversionSettles

SpecDialogueConverter == InitDialogueConverter /\ [][NextDialogueConverter]_vars

\* the ids of the items of the batch
BatchIds == {uiBatchDialogues[i].id : i \in 1..Len(uiBatchDialogues)}

\* C30: every id in editedItems is the id of an item of batchDialogues, so
\* the edit count shown is at most the number of items of the batch.
C30_EditedItemsInBatch ==
    /\ editedItems \subseteq BatchIds
    /\ Cardinality(editedItems) <= Len(uiBatchDialogues)

====
